---- MODULE Spec2Model ----
(***************************************************************************)
(* A model of the configuration front-end of pound (src/src/config.c):     *)
(* the input stack and its token reader, the table-driven section parser   *)
(* (parser_loop) and the statement handlers of the keyword tables.         *)
(*                                                                         *)
(* The contents of the configuration files are, as a rule, not fixed in    *)
(* advance: each call of the lexer draws the token it scans (a "draw")     *)
(* from a small alphabet, so the model covers every file that can be       *)
(* written over that alphabet.  SpecFiles instead starts from files whose  *)
(* contents are chosen in Init (fs.content), for the properties that       *)
(* compare what was read with what the files hold.                         *)
(*                                                                         *)
(* The parser itself is modelled step by step: parser_loop reads the       *)
(* token at statement position and looks the keyword up, the handler of    *)
(* the keyword runs, and parser_loop acts on its result.  A handler that   *)
(* opens a section (Service, ListenHTTP, ...) pushes a frame and           *)
(* continues when the parser_loop it called returns.                       *)
(***************************************************************************)
EXTENDS Integers, Sequences, FiniteSets, TLC

VARIABLES
  cur_input,   \* the input stack, innermost (cur_input) first
  stack,       \* the active parser_loop calls, outermost first
  pc,          \* position of the parser
  res,         \* the value returned by the last handler or parser_loop
  listeners,   \* global list of listeners
  services,    \* global list of services
  anonymise,   \* global flag set by Anonymise
  diag,        \* diagnostics emitted by the last step that was not a mere return
  result,      \* outcome of parse_config_file
  nstmt,       \* number of statements dispatched so far
  done,        \* history: per open section, the keywords whose handler succeeded
  fs,          \* the contents of the files, when they are fixed in advance
  seen         \* history: the values gettkn returned (files fixed in advance)

vars == <<cur_input, stack, pc, res, listeners, services, anonymise,
          diag, result, nstmt, done, fs, seen>>

(* Bounds of the model. *)
MaxStmts == 5

(***************************************************************************)
(* Tokens.                                                                 *)
(***************************************************************************)
T_IDENT == "T_IDENT"
T_NUMBER == "T_NUMBER"
T_STRING == "T_STRING"
T_LITERAL == "T_LITERAL"
T_ERROR == "T_ERROR"
NL == "NL"
EOF == "EOF"


\* Token masks are sets of token types; T_ANY is the empty mask.
T_ANY == {}
T_UNQ == {T_IDENT, T_NUMBER, T_LITERAL}

T_MASK_ISSET(m, t) == t \in m

\* A token: its type, its lexeme and the file of its locus.
Tok(t, s) == [type |-> t, str |-> s, locus |-> ""]

\* A token structure that was never filled (memset 0), and a NULL token pointer.
ZeroTok == Tok("zero", "")
NullTok == Tok("NULL", "")

PARSER_OK == "PARSER_OK"
PARSER_OK_NONL == "PARSER_OK_NONL"
PARSER_FAIL == "PARSER_FAIL"
PARSER_END == "PARSER_END"

Msg(text, at) == [text |-> text, at |-> at]

(***************************************************************************)
(* The file system seen by stat() and fopen().                             *)
(***************************************************************************)
\* link.cfg is a hard link to a.cfg; x.cfg has the inode number of main.cfg
\* on another device; locked.cfg cannot be opened; none.cfg does not exist.
FileNames == {"main.cfg", "a.cfg", "link.cfg", "x.cfg", "locked.cfg", "none.cfg"}

stat(filename) ==
  CASE filename = "main.cfg"   -> [ok |-> TRUE, st_dev |-> 1, st_ino |-> 1]
    [] filename = "a.cfg"      -> [ok |-> TRUE, st_dev |-> 1, st_ino |-> 2]
    [] filename = "link.cfg"   -> [ok |-> TRUE, st_dev |-> 1, st_ino |-> 2]
    [] filename = "x.cfg"      -> [ok |-> TRUE, st_dev |-> 2, st_ino |-> 1]
    [] filename = "locked.cfg" -> [ok |-> TRUE, st_dev |-> 1, st_ino |-> 3]
    [] OTHER                   -> [ok |-> FALSE, st_dev |-> 0, st_ino |-> 0]

fopen(filename) == filename \in {"main.cfg", "a.cfg", "link.cfg", "x.cfg"}

(***************************************************************************)
(* Input scanner.                                                          *)
(***************************************************************************)
\* pos is the offset of the open file, counted in tokens, or in characters
\* when the file is given as a text; it is tracked only when the contents of
\* the files are fixed in advance.  The line and the column are tracked only
\* for a text.
input_open(filename, st) ==
  [name |-> filename, ino |-> st.st_ino, devno |-> st.st_dev,
   ready |-> FALSE, token |-> ZeroTok, pos |-> 0,
   locus |-> [line |-> 1, col |-> 0], prev_col |-> 0]

\* One call of the lexer on an input.  scanned is the token the lexer finds
\* in the file; it is not looked at when a token was put back.
input_gettkn_MutReread(input, scanned) ==
  [input |-> [input EXCEPT !.token = [scanned EXCEPT !.locus = input.name],
                           !.pos = IF fs.lazy THEN 0 ELSE @ + 1],
   type |-> scanned.type]

input_gettkn(input, scanned) ==
  IF input.ready
  THEN [input |-> [input EXCEPT !.ready = FALSE], type |-> input.token.type]
  ELSE [input |-> [input EXCEPT !.token = [scanned EXCEPT !.locus = input.name],
                                 !.pos = IF fs.lazy THEN 0 ELSE @ + 1],
        type |-> scanned.type]

input_putback(input) == [input EXCEPT !.ready = TRUE]

\* input_getc on a file whose contents are text: the character read, EOF at
\* the end of the text, and the input with its offset, line and column.
input_getc(input, text) ==
  LET c == IF input.pos < Len(text)
           THEN SubSeq(text, input.pos + 1, input.pos + 1) ELSE EOF
  IN [c |-> c,
      input |-> IF c = "\n"
                THEN [input EXCEPT !.pos = @ + 1, !.locus.line = @ + 1,
                                   !.prev_col = input.locus.col, !.locus.col = 0]
                ELSE IF c = "\t"
                THEN [input EXCEPT !.pos = @ + 1, !.locus.col = @ + 8]
                ELSE IF c # EOF
                THEN [input EXCEPT !.pos = @ + 1, !.locus.col = @ + 1]
                ELSE input]

input_ungetc(input, c) ==
  IF c # EOF
  THEN IF c = "\n"
       THEN [input EXCEPT !.pos = @ - 1, !.locus.line = @ - 1,
                          !.locus.col = input.prev_col]
       ELSE [input EXCEPT !.pos = @ - 1, !.locus.col = @ - 1]
  ELSE input

\* input_gettkn on a file whose contents are text: the input, the type
\* returned and the diagnostics.  The token gets its type, its lexeme and the
\* range from beg to end; the lexeme of a token that has none (newline, end
\* of file, error) is not read by the parser and is "" here.
input_gettkn_text_MutNoDemote(input, text) ==
  LET isalpha(c) == c \in
          {"A", "B", "C", "D", "E", "F", "G", "H", "I", "J", "K", "L", "M",
           "N", "O", "P", "Q", "R", "S", "T", "U", "V", "W", "X", "Y", "Z",
           "a", "b", "c", "d", "e", "f", "g", "h", "i", "j", "k", "l", "m",
           "n", "o", "p", "q", "r", "s", "t", "u", "v", "w", "x", "y", "z"}
      isdigit(c) == c \in {"0", "1", "2", "3", "4", "5", "6", "7", "8", "9"}
      isspace(c) == c \in {" ", "\t", "\n", "\r", "\f"}
      is_ident_start(c) == isalpha(c) \/ c = "_"
      is_ident_cont(c) == is_ident_start(c) \/ isdigit(c)
      beg0 == IF input.token.type = "zero"
              THEN [line |-> 0, col |-> 0] ELSE input.token.locus.beg
      end(in, type, str, beg, msgs) ==
        [input |-> [in EXCEPT !.token = [type |-> type, str |-> str,
                                         locus |-> [beg |-> beg, end |-> in.locus]]],
         type |-> type, msgs |-> msgs]
      newline(in) ==
        end(in, NL, "", [line |-> in.locus.line - 1, col |-> in.prev_col], <<>>)
      RECURSIVE comment(_), quoted(_, _, _, _), word(_, _, _, _, _), ident(_, _, _),
                top(_)
      comment(in) ==
        LET g == input_getc(in, text)
        IN IF g.c = EOF THEN end(g.input, EOF, "", beg0, <<>>)
           ELSE IF g.c = "\n" THEN newline(g.input)
           ELSE comment(g.input)
      quoted(in, buf, beg, msgs) ==
        LET g == input_getc(in, text)
            h == IF g.c = "\\" THEN input_getc(g.input, text) ELSE g
            m == IF g.c = "\\" /\ h.c \notin {EOF, "\"", "\\"}
                 THEN msgs \o <<Msg("unrecognized escape character", h.input.locus)>>
                 ELSE msgs
        IN IF g.c = "\"" THEN end(g.input, T_STRING, buf, beg, msgs)
           ELSE IF h.c = EOF
           THEN end(h.input, T_ERROR, "", beg,
                    m \o <<Msg("end of file in quoted string", h.input.locus)>>)
           ELSE IF h.c = "\n"
           THEN end(h.input, T_ERROR, "", beg,
                    m \o <<Msg("end of line in quoted string", h.input.locus)>>)
           ELSE quoted(h.input, buf \o h.c, beg, m)
      word(in, c, buf, type, beg) ==
        LET g == input_getc(in, text)
            ty == type
        IN IF g.c # EOF /\ ~isspace(g.c)
           THEN word(g.input, g.c, buf \o c, ty, beg)
           ELSE end(input_ungetc(g.input, g.c), ty, buf \o c, beg, <<>>)
      ident(in, buf, beg) ==
        LET g == input_getc(in, text)
        IN IF g.c # EOF /\ is_ident_cont(g.c)
           THEN ident(g.input, buf \o g.c, beg)
           ELSE IF g.c = EOF \/ isspace(g.c)
           THEN end(input_ungetc(g.input, g.c), T_IDENT, buf, beg, <<>>)
           ELSE word(g.input, g.c, buf,
                     IF isdigit(g.c) THEN T_NUMBER ELSE T_LITERAL, beg)
      top(in) ==
        LET g == input_getc(in, text)
        IN IF g.c = EOF THEN end(g.input, EOF, "", beg0, <<>>)
           ELSE IF g.c = "#" THEN comment(g.input)
           ELSE IF g.c = "\n" THEN newline(g.input)
           ELSE IF isspace(g.c) THEN top(g.input)
           ELSE IF g.c = "\"" THEN quoted(g.input, "", g.input.locus, <<>>)
           ELSE IF is_ident_start(g.c) THEN ident(g.input, g.c, g.input.locus)
           ELSE word(g.input, g.c, "",
                     IF isdigit(g.c) THEN T_NUMBER ELSE T_LITERAL, g.input.locus)
  IN IF input.ready
     THEN [input |-> [input EXCEPT !.ready = FALSE], type |-> input.token.type,
           msgs |-> <<>>]
     ELSE top(input)

input_gettkn_text(input, text) ==
  LET isalpha(c) == c \in
          {"A", "B", "C", "D", "E", "F", "G", "H", "I", "J", "K", "L", "M",
           "N", "O", "P", "Q", "R", "S", "T", "U", "V", "W", "X", "Y", "Z",
           "a", "b", "c", "d", "e", "f", "g", "h", "i", "j", "k", "l", "m",
           "n", "o", "p", "q", "r", "s", "t", "u", "v", "w", "x", "y", "z"}
      isdigit(c) == c \in {"0", "1", "2", "3", "4", "5", "6", "7", "8", "9"}
      isspace(c) == c \in {" ", "\t", "\n", "\r", "\f"}
      is_ident_start(c) == isalpha(c) \/ c = "_"
      is_ident_cont(c) == is_ident_start(c) \/ isdigit(c)
      beg0 == IF input.token.type = "zero"
              THEN [line |-> 0, col |-> 0] ELSE input.token.locus.beg
      end(in, type, str, beg, msgs) ==
        [input |-> [in EXCEPT !.token = [type |-> type, str |-> str,
                                         locus |-> [beg |-> beg, end |-> in.locus]]],
         type |-> type, msgs |-> msgs]
      newline(in) ==
        end(in, NL, "", [line |-> in.locus.line - 1, col |-> in.prev_col], <<>>)
      RECURSIVE comment(_), quoted(_, _, _, _), word(_, _, _, _, _), ident(_, _, _),
                top(_)
      comment(in) ==
        LET g == input_getc(in, text)
        IN IF g.c = EOF THEN end(g.input, EOF, "", beg0, <<>>)
           ELSE IF g.c = "\n" THEN newline(g.input)
           ELSE comment(g.input)
      quoted(in, buf, beg, msgs) ==
        LET g == input_getc(in, text)
            h == IF g.c = "\\" THEN input_getc(g.input, text) ELSE g
            m == IF g.c = "\\" /\ h.c \notin {EOF, "\"", "\\"}
                 THEN msgs \o <<Msg("unrecognized escape character", h.input.locus)>>
                 ELSE msgs
        IN IF g.c = "\"" THEN end(g.input, T_STRING, buf, beg, msgs)
           ELSE IF h.c = EOF
           THEN end(h.input, T_ERROR, "", beg,
                    m \o <<Msg("end of file in quoted string", h.input.locus)>>)
           ELSE IF h.c = "\n"
           THEN end(h.input, T_ERROR, "", beg,
                    m \o <<Msg("end of line in quoted string", h.input.locus)>>)
           ELSE quoted(h.input, buf \o h.c, beg, m)
      word(in, c, buf, type, beg) ==
        LET g == input_getc(in, text)
            ty == IF isdigit(c) THEN type ELSE T_LITERAL
        IN IF g.c # EOF /\ ~isspace(g.c)
           THEN word(g.input, g.c, buf \o c, ty, beg)
           ELSE end(input_ungetc(g.input, g.c), ty, buf \o c, beg, <<>>)
      ident(in, buf, beg) ==
        LET g == input_getc(in, text)
        IN IF g.c # EOF /\ is_ident_cont(g.c)
           THEN ident(g.input, buf \o g.c, beg)
           ELSE IF g.c = EOF \/ isspace(g.c)
           THEN end(input_ungetc(g.input, g.c), T_IDENT, buf, beg, <<>>)
           ELSE word(g.input, g.c, buf,
                     IF isdigit(g.c) THEN T_NUMBER ELSE T_LITERAL, beg)
      top(in) ==
        LET g == input_getc(in, text)
        IN IF g.c = EOF THEN end(g.input, EOF, "", beg0, <<>>)
           ELSE IF g.c = "#" THEN comment(g.input)
           ELSE IF g.c = "\n" THEN newline(g.input)
           ELSE IF isspace(g.c) THEN top(g.input)
           ELSE IF g.c = "\"" THEN quoted(g.input, "", g.input.locus, <<>>)
           ELSE IF is_ident_start(g.c) THEN ident(g.input, g.c, g.input.locus)
           ELSE word(g.input, g.c, "",
                     IF isdigit(g.c) THEN T_NUMBER ELSE T_LITERAL, g.input.locus)
  IN IF input.ready
     THEN [input |-> [input EXCEPT !.ready = FALSE], type |-> input.token.type,
           msgs |-> <<>>]
     ELSE top(input)

\* The inputs of the stack whose (device, inode) is that of st, as indices
\* from the top of the stack.
same_file_MutTopOnly(inp, st) ==
  {i \in 1..Len(inp) : i = 1 /\ inp[i].ino = st.st_ino /\ inp[i].devno = st.st_dev}

same_file_MutNone(inp, st) == {}

same_file(inp, st) ==
  {i \in 1..Len(inp) : inp[i].ino = st.st_ino /\ inp[i].devno = st.st_dev}

Min(S) == CHOOSE x \in S : \A y \in S : x <= y

\* push_input on the stack inp: the new stack, the return code and the
\* diagnostics.  The locus of a diagnostic is abstracted to a file name.
push_input(inp, filename) ==
  LET st == stat(filename)
      here == IF inp = <<>> THEN "" ELSE Head(inp).name
      dup == same_file(inp, st)
  IN IF ~st.ok
     THEN [rc |-> -1, inp |-> inp, msgs |-> <<Msg("can't stat", here)>>]
     ELSE IF dup # {}
     THEN LET i == Min(dup)
          IN IF i < Len(inp)
             THEN [rc |-> -1, inp |-> inp,
                   msgs |-> <<Msg("already included", here),
                              Msg("here is the place of original inclusion",
                                  inp[i + 1].name)>>]
             ELSE [rc |-> -1, inp |-> inp,
                   msgs |-> <<Msg("already included (at top level)", here)>>]
     ELSE IF ~fopen(filename)
     THEN [rc |-> -1, inp |-> inp, msgs |-> <<Msg("can't open", "")>>]
     ELSE [rc |-> 0, inp |-> <<input_open(filename, st)>> \o inp, msgs |-> <<>>]

pop_input(inp) == Tail(inp)

\* What the lexer meets in one call of gettkn when the contents of the files
\* are not fixed: eofs inputs are at their end of file, then tok is scanned.
\* junk is the value the uninitialised local t of gettkn happens to hold when
\* gettkn is entered with cur_input = NULL.
Draw(n, tk, j) == [eofs |-> n, tok |-> tk, junk |-> j]

\* The token the lexer scans next in an input.
scan(input, n, tk) ==
  IF fs.lazy
  THEN IF n > 0 THEN Tok(EOF, "") ELSE tk
  ELSE IF input.pos < Len(fs.content[input.name])
       THEN fs.content[input.name][input.pos + 1]
       ELSE Tok(EOF, "")

RECURSIVE gettkn_loop(_, _, _)
gettkn_loop_MutLeaveLast(inp, n, tk) ==
  IF inp = <<>>
  THEN [inp |-> inp, type |-> EOF, tok |-> NullTok, init |-> TRUE,
        got |-> <<Tok(EOF, "")>>]
  ELSE LET r == input_gettkn(Head(inp), scan(Head(inp), n, tk))
           top == <<r.input>> \o Tail(inp)
       IN IF r.type = EOF
          THEN IF Tail(inp) = <<>>
               THEN [inp |-> top, type |-> EOF, tok |-> NullTok, init |-> TRUE,
                     got |-> <<Tok(EOF, "")>>]
               ELSE gettkn_loop(pop_input(top), n - 1, tk)
          ELSE [inp |-> top, type |-> r.type, tok |-> r.input.token, init |-> TRUE,
                got |-> <<r.input.token>>]

gettkn_loop(inp, n, tk) ==
  IF inp = <<>>
  THEN [inp |-> inp, type |-> EOF, tok |-> NullTok, init |-> TRUE,
        got |-> <<Tok(EOF, "")>>]
  ELSE LET r == input_gettkn(Head(inp), scan(Head(inp), n, tk))
           top == <<r.input>> \o Tail(inp)
       IN IF r.type = EOF
          THEN gettkn_loop(pop_input(top), n - 1, tk)
          ELSE [inp |-> top, type |-> r.type, tok |-> r.input.token, init |-> TRUE,
                got |-> <<r.input.token>>]

gettkn_MutNoPop(inp, d) ==
  IF inp = <<>>
  THEN [inp |-> inp, type |-> d.junk, tok |-> NullTok, init |-> FALSE,
        got |-> <<Tok(d.junk, "")>>]
  ELSE LET r == input_gettkn(Head(inp), scan(Head(inp), d.eofs, d.tok))
       IN [inp |-> <<r.input>> \o Tail(inp), type |-> r.type,
           tok |-> r.input.token, init |-> TRUE,
           got |-> <<[r.input.token EXCEPT !.locus =
                        IF r.type = EOF THEN "" ELSE @]>>]

\* gettkn: the new stack, the type returned and the token *tok is set to.
\* init is FALSE when the type returned is the uninitialised t.
gettkn(inp, d) ==
  IF inp = <<>>
  THEN [inp |-> inp, type |-> d.junk, tok |-> NullTok, init |-> FALSE,
        got |-> <<Tok(d.junk, "")>>]
  ELSE gettkn_loop(inp, d.eofs, d.tok)

\* The draws to consider for a call of gettkn on the stack inp, the token
\* scanned being one of toks.
JunkTypes == {EOF, T_ERROR, NL}

DrawsAt(inp, toks) ==
  IF inp = <<>> THEN {Draw(0, NullTok, j) : j \in JunkTypes}
  ELSE IF ~fs.lazy \/ Head(inp).ready THEN {Draw(0, NullTok, EOF)}
  ELSE {Draw(n, tk, EOF) : n \in 0..(Len(inp) - 1), tk \in toks}
       \cup {Draw(Len(inp), NullTok, EOF)}

\* gettkn_expect_mask that has no case of its own for T_ERROR: the token is
\* tested against the mask as any other.
gettkn_expect_mask_MutErrorType(inp, d, expect) ==
  LET g == gettkn(inp, d)
      r == [inp |-> g.inp, got |-> g.got, tok |-> NullTok, msgs |-> <<>>]
  IN IF g.type = EOF
     THEN [r EXCEPT !.msgs = <<Msg("unexpected end of file", "")>>]
     ELSE IF expect = T_ANY
     THEN [r EXCEPT !.tok = g.tok]
     ELSE IF ~T_MASK_ISSET(expect, g.type)
     THEN [r EXCEPT !.msgs = <<Msg("expected, but found", g.tok.locus)>>]
     ELSE [r EXCEPT !.tok = g.tok]

\* gettkn_expect_mask: the token (NullTok for NULL), the stack and the
\* diagnostics.  A newline is in no mask.
gettkn_expect_mask(inp, d, expect) ==
  LET g == gettkn(inp, d)
      r == [inp |-> g.inp, got |-> g.got, tok |-> NullTok, msgs |-> <<>>]
  IN IF g.type = EOF
     THEN [r EXCEPT !.msgs = <<Msg("unexpected end of file", "")>>]
     ELSE IF g.type = T_ERROR
     THEN r
     ELSE IF expect = T_ANY
     THEN [r EXCEPT !.tok = g.tok]
     ELSE IF ~T_MASK_ISSET(expect, g.type)
     THEN [r EXCEPT !.msgs = <<Msg("expected, but found", g.tok.locus)>>]
     ELSE [r EXCEPT !.tok = g.tok]

gettkn_any(inp, d) == gettkn_expect_mask(inp, d, T_ANY)

gettkn_expect(inp, d, type) == gettkn_expect_mask(inp, d, {type})

putback_tkn(inp) == <<input_putback(Head(inp))>> \o Tail(inp)

(***************************************************************************)
(* Keyword tables.  An entry is the keyword, the handler and the field of  *)
(* the section's object the handler is given ("" when it is given the      *)
(* object itself, "&x" when it is given the global x).                     *)
(***************************************************************************)
Ent(name, parser, off) == [name |-> name, parser |-> parser, off |-> off]

NoEnt == Ent("", "", "")

top_level_parsetab ==
  { Ent("Include", "parse_include", ""),
    Ent("User", "assign_string", "&user"),
    Ent("Group", "assign_string", "&group"),
    Ent("RootJail", "assign_string", "&root_jail"),
    Ent("Daemon", "assign_bool", "&daemonize"),
    Ent("Supervisor", "assign_bool", "&enable_supervisor"),
    Ent("Threads", "assign_unsigned", "&numthreads"),
    Ent("Grace", "assign_timeout", "&grace"),
    Ent("LogFacility", "assign_log_facility", "facility"),
    Ent("LogLevel", "assign_log_level", "log_level"),
    Ent("Alive", "assign_timeout", "&alive_to"),
    Ent("Client", "assign_timeout", "clnt_to"),
    Ent("TimeOut", "assign_timeout", "be_to"),
    Ent("WSTimeOut", "assign_timeout", "ws_to"),
    Ent("ConnTO", "assign_timeout", "be_connto"),
    Ent("IgnoreCase", "assign_bool", "ignore_case"),
    Ent("ECDHCurve", "parse_ECDHCurve", ""),
    Ent("SSLEngine", "parse_SSLEngine", ""),
    Ent("Control", "assign_string", "&ctrl_name"),
    Ent("Anonymise", "int_set_one", "&anonymise"),
    Ent("Anonymize", "int_set_one", "&anonymise"),
    Ent("Service", "parse_service", "&services"),
    Ent("ListenHTTP", "parse_listen_http", "&listeners"),
    Ent("ListenHTTPS", "parse_listen_https", "&listeners") }

http_parsetab ==
  { Ent("End", "parse_end", ""),
    Ent("Address", "assign_address", "addr"),
    Ent("Port", "assign_port", "addr"),
    Ent("SocketFrom", "listener_parse_socket_from", ""),
    Ent("xHTTP", "listener_parse_xhttp", "verb"),
    Ent("Client", "assign_timeout", "to"),
    Ent("CheckURL", "listener_parse_checkurl", ""),
    Ent("Err404", "assign_string_from_file", "err404"),
    Ent("Err413", "assign_string_from_file", "err413"),
    Ent("Err414", "assign_string_from_file", "err414"),
    Ent("Err500", "assign_string_from_file", "err500"),
    Ent("Err501", "assign_string_from_file", "err501"),
    Ent("Err503", "assign_string_from_file", "err503"),
    Ent("MaxRequest", "assign_LONG", "max_req"),
    Ent("HeadRemove", "assign_matcher", "head_off"),
    Ent("RewriteLocation", "parse_rewritelocation", "rewr_loc"),
    Ent("RewriteDestination", "assign_bool", "rewr_dest"),
    Ent("LogLevel", "assign_int", "log_level"),
    Ent("AddHeader", "append_string_line", "add_head"),
    Ent("Service", "parse_service", "services"),
    Ent("ACME", "parse_acme", "services") }

https_parsetab ==
  { Ent("End", "parse_end", ""),
    Ent("Address", "assign_address", "addr"),
    Ent("Port", "assign_port", "addr"),
    Ent("SocketFrom", "listener_parse_socket_from", ""),
    Ent("xHTTP", "listener_parse_xhttp", "verb"),
    Ent("Client", "assign_timeout", "to"),
    Ent("CheckURL", "listener_parse_checkurl", ""),
    Ent("Err404", "assign_string_from_file", "err404"),
    Ent("Err413", "assign_string_from_file", "err413"),
    Ent("Err414", "assign_string_from_file", "err414"),
    Ent("Err500", "assign_string_from_file", "err500"),
    Ent("Err501", "assign_string_from_file", "err501"),
    Ent("Err503", "assign_string_from_file", "err503"),
    Ent("MaxRequest", "assign_LONG", "max_req"),
    Ent("HeadRemove", "assign_matcher", "head_off"),
    Ent("RewriteLocation", "parse_rewritelocation", "rewr_loc"),
    Ent("RewriteDestination", "assign_bool", "rewr_dest"),
    Ent("LogLevel", "assign_int", "log_level"),
    Ent("AddHeader", "append_string_line", "add_head"),
    Ent("Service", "parse_service", "services"),
    Ent("Cert", "https_parse_cert", ""),
    Ent("ClientCert", "https_parse_client_cert", ""),
    Ent("Disable", "https_parse_disable", ""),
    Ent("Ciphers", "https_parse_ciphers", ""),
    Ent("SSLHonorCipherOrder", "https_parse_honor_cipher_order", ""),
    Ent("SSLAllowClientRenegotiation", "https_parse_allow_client_renegotiation", ""),
    Ent("CAlist", "https_parse_calist", ""),
    Ent("VerifyList", "https_parse_verifylist", ""),
    Ent("CRLlist", "https_parse_crlist", ""),
    Ent("NoHTTPS11", "https_parse_nohttps11", "") }

service_parsetab ==
  { Ent("End", "parse_end", ""),
    Ent("URL", "assign_token_list", "url"),
    Ent("IgnoreCase", "assign_bool", "ignore_case"),
    Ent("HeadRequire", "assign_matcher", "req_head"),
    Ent("HeadDeny", "assign_matcher", "deny_head"),
    Ent("Disabled", "assign_bool", "disabled"),
    Ent("Redirect", "assign_redirect", "backends"),
    Ent("Backend", "parse_backend", "backends"),
    Ent("Emergency", "parse_emergency", "emergency"),
    Ent("Session", "parse_session", "") }

backend_parsetab ==
  { Ent("End", "parse_end", ""),
    Ent("Address", "assign_address", "addr"),
    Ent("Port", "assign_port", "addr"),
    Ent("Priority", "backend_assign_priority", "priority"),
    Ent("TimeOut", "assign_timeout", "to"),
    Ent("WSTimeOut", "assign_timeout", "ws_to"),
    Ent("ConnTO", "assign_timeout", "conn_to"),
    Ent("HAport", "backend_parse_haport", ""),
    Ent("HTTPS", "backend_parse_https", ""),
    Ent("Cert", "backend_parse_cert", ""),
    Ent("Ciphers", "backend_assign_ciphers", ""),
    Ent("Disable", "disable_proto", "ctx") }

emergency_parsetab ==
  { Ent("End", "parse_end", ""),
    Ent("Address", "assign_address", "addr"),
    Ent("Port", "assign_port", "addr"),
    Ent("TimeOut", "assign_timeout", "to"),
    Ent("WSTimeOut", "assign_timeout", "ws_to"),
    Ent("ConnTO", "assign_timeout", "conn_to"),
    Ent("HTTPS", "backend_parse_https", ""),
    Ent("Cert", "backend_parse_cert", ""),
    Ent("Ciphers", "backend_assign_ciphers", ""),
    Ent("Disable", "disable_proto", "ctx") }

session_parsetab ==
  { Ent("End", "parse_end", ""),
    Ent("Type", "session_type_parser", ""),
    Ent("TTL", "assign_timeout", "ttl"),
    Ent("ID", "assign_string", "id") }

\* The table a section is parsed with.
parsetab(sect) ==
  CASE sect = "top" -> top_level_parsetab
    [] sect = "http" -> http_parsetab
    [] sect = "https" -> https_parsetab
    [] sect = "service" -> service_parsetab
    [] sect = "backend" -> backend_parsetab
    [] sect = "emergency" -> emergency_parsetab
    [] sect = "session" -> session_parsetab

\* Keywords are compared with strcasecmp; the model writes every keyword in
\* the case of the table.
parser_find(tab, name) ==
  IF \E e \in tab : e.name = name
  THEN CHOOSE e \in tab : e.name = name
  ELSE NoEnt

(***************************************************************************)
(* The objects the parser builds.                                          *)
(***************************************************************************)
pound_defaults ==
  [log_level |-> 1, facility |-> "LOG_DAEMON", clnt_to |-> 10, be_to |-> 15,
   ws_to |-> 600, be_connto |-> 15, ignore_case |-> 0]

Frame(sect, obj) == [sect |-> sect, obj |-> obj, ent |-> NoEnt]

Top == stack[Len(stack)]
Parent == stack[Len(stack) - 1]

\* The history of gettkn, kept when the files are fixed in advance.
Saw(got) == IF fs.lazy THEN seen ELSE seen \o got

(***************************************************************************)
(* parse_config_file and parser_loop.                                      *)
(***************************************************************************)
ConfNames == {"main.cfg", "none.cfg"}

parse_config_file ==
  /\ pc = "start"
  /\ \E file \in ConfNames :
       LET p == push_input(cur_input, file)
       IN /\ cur_input' = p.inp
          /\ diag' = p.msgs
          /\ IF p.rc = 0
             THEN /\ stack' = <<Frame("top", pound_defaults)>>
                  /\ done' = <<{}>>
                  /\ pc' = "loop"
                  /\ result' = result
             ELSE /\ pc' = "done"
                  /\ result' = "fail"
                  /\ UNCHANGED <<stack, done>>
  /\ UNCHANGED <<res, listeners, services, anonymise, nstmt, fs, seen>>

parse_config_file_ret ==
  /\ pc = "sret"
  /\ Top.sect = "top"
  /\ pc' = "done"
  /\ result' = IF res = PARSER_OK
               THEN IF cur_input # <<>> THEN "exit" ELSE "ok"
               ELSE "fail"
  /\ UNCHANGED <<cur_input, stack, res, listeners, services, anonymise, diag,
                 nstmt, done, fs, seen>>

\* The tokens a file may hold at statement position: the keywords V and the
\* other tokens O.
StmtTokens(V, O) == {Tok(T_IDENT, k) : k \in V} \cup O

\* parser_loop, from the top of the loop to the call of the handler; at most
\* max statements are dispatched.
parser_loop_MutNoRange(V, O, max) ==
  /\ pc = "loop"
  /\ \E d \in DrawsAt(cur_input, StmtTokens(V, O)) :
       LET g == gettkn(cur_input, d)
           found == parser_find(parsetab(Top.sect), g.tok.str)
           retrange == FALSE
       IN /\ cur_input' = g.inp
          /\ seen' = Saw(g.got)
          /\ IF g.type = EOF
             THEN IF retrange
                  THEN /\ diag' = <<Msg("unexpected end of file", Top.beg)>>
                       /\ pc' = "sret" /\ res' = PARSER_FAIL
                       /\ UNCHANGED <<stack, result, nstmt>>
                  ELSE /\ diag' = <<>>
                       /\ pc' = "sret" /\ res' = PARSER_OK
                       /\ UNCHANGED <<stack, result, nstmt>>
             ELSE IF g.type = T_ERROR
             THEN /\ diag' = <<>>
                  /\ pc' = "sret" /\ res' = PARSER_FAIL
                  /\ UNCHANGED <<stack, result, nstmt>>
             ELSE IF ~g.init
             THEN \* tok and last_token_locus_range () are dereferenced
                  /\ diag' = <<>>
                  /\ pc' = "done" /\ result' = "undefined"
                  /\ UNCHANGED <<stack, res, nstmt>>
             ELSE IF g.tok.type = T_IDENT
             THEN IF found # NoEnt
                  THEN /\ nstmt < max
                       /\ nstmt' = nstmt + 1
                       /\ stack' = [stack EXCEPT ![Len(stack)].ent = found]
                       /\ diag' = <<>>
                       /\ pc' = "call"
                       /\ UNCHANGED <<res, result>>
                  ELSE /\ diag' = <<Msg("unrecognized keyword", g.tok.locus)>>
                       /\ pc' = "sret" /\ res' = PARSER_FAIL
                       /\ UNCHANGED <<stack, result, nstmt>>
             ELSE IF g.tok.type = NL
             THEN /\ diag' = <<>>
                  /\ UNCHANGED <<stack, pc, res, result, nstmt>>
             ELSE /\ diag' = <<Msg("syntax error", g.tok.locus)>>
                  /\ UNCHANGED <<stack, pc, res, result, nstmt>>
  /\ UNCHANGED <<listeners, services, anonymise, done, fs>>

parser_loop(V, O, max) ==
  /\ pc = "loop"
  /\ \E d \in DrawsAt(cur_input, StmtTokens(V, O)) :
       LET g == gettkn(cur_input, d)
           found == parser_find(parsetab(Top.sect), g.tok.str)
           retrange == Top.sect # "top"
       IN /\ cur_input' = g.inp
          /\ seen' = Saw(g.got)
          /\ IF g.type = EOF
             THEN IF retrange
                  THEN /\ diag' = <<Msg("unexpected end of file", Top.beg)>>
                       /\ pc' = "sret" /\ res' = PARSER_FAIL
                       /\ UNCHANGED <<stack, result, nstmt>>
                  ELSE /\ diag' = <<>>
                       /\ pc' = "sret" /\ res' = PARSER_OK
                       /\ UNCHANGED <<stack, result, nstmt>>
             ELSE IF g.type = T_ERROR
             THEN /\ diag' = <<>>
                  /\ pc' = "sret" /\ res' = PARSER_FAIL
                  /\ UNCHANGED <<stack, result, nstmt>>
             ELSE IF ~g.init
             THEN \* tok and last_token_locus_range () are dereferenced
                  /\ diag' = <<>>
                  /\ pc' = "done" /\ result' = "undefined"
                  /\ UNCHANGED <<stack, res, nstmt>>
             ELSE IF g.tok.type = T_IDENT
             THEN IF found # NoEnt
                  THEN /\ nstmt < max
                       /\ nstmt' = nstmt + 1
                       /\ stack' = [stack EXCEPT ![Len(stack)].ent = found]
                       /\ diag' = <<>>
                       /\ pc' = "call"
                       /\ UNCHANGED <<res, result>>
                  ELSE /\ diag' = <<Msg("unrecognized keyword", g.tok.locus)>>
                       /\ pc' = "sret" /\ res' = PARSER_FAIL
                       /\ UNCHANGED <<stack, result, nstmt>>
             ELSE IF g.tok.type = NL
             THEN /\ diag' = <<>>
                  /\ UNCHANGED <<stack, pc, res, result, nstmt>>
             ELSE /\ diag' = <<Msg("syntax error", g.tok.locus)>>
                  /\ UNCHANGED <<stack, pc, res, result, nstmt>>
  /\ UNCHANGED <<listeners, services, anonymise, done, fs>>

parser_loop_switch_MutNoCheck(T) ==
  /\ pc = "ret"
  /\ IF res = PARSER_OK
     THEN \E d \in DrawsAt(cur_input, T) :
            LET g == gettkn(cur_input, d)
            IN /\ cur_input' = g.inp
               /\ seen' = Saw(g.got)
               /\ done' = [done EXCEPT ![Len(stack)] = @ \cup {Top.ent.name}]
               /\ IF g.type = T_ERROR
                  THEN /\ diag' = <<>>
                       /\ pc' = "sret" /\ res' = PARSER_FAIL
                  ELSE IF g.type # NL /\ g.type # EOF /\ g.type # T_LITERAL
                  THEN /\ diag' = <<Msg("unexpected", g.tok.locus)>>
                       /\ pc' = "sret" /\ res' = PARSER_FAIL
                  ELSE /\ diag' = <<>>
                       /\ pc' = "loop" /\ res' = res
     ELSE IF res = PARSER_OK_NONL
     THEN /\ pc' = "loop"
          /\ done' = [done EXCEPT ![Len(stack)] = @ \cup {Top.ent.name}]
          /\ diag' = <<>>
          /\ UNCHANGED <<cur_input, res, seen>>
     ELSE IF res = PARSER_FAIL
     THEN /\ pc' = "sret"
          /\ UNCHANGED <<cur_input, res, diag, done, seen>>
     ELSE /\ pc' = "sret" /\ res' = PARSER_OK
          /\ diag' = <<>>
          /\ UNCHANGED <<cur_input, done, seen>>
  /\ UNCHANGED <<stack, listeners, services, anonymise, result, nstmt, fs>>

\* parser_loop, the switch on the value the handler returned.  T are the
\* tokens a file may hold after a complete statement.
parser_loop_switch(T) ==
  /\ pc = "ret"
  /\ IF res = PARSER_OK
     THEN \E d \in DrawsAt(cur_input, T) :
            LET g == gettkn(cur_input, d)
            IN /\ cur_input' = g.inp
               /\ seen' = Saw(g.got)
               /\ done' = [done EXCEPT ![Len(stack)] = @ \cup {Top.ent.name}]
               /\ IF g.type = T_ERROR
                  THEN /\ diag' = <<>>
                       /\ pc' = "sret" /\ res' = PARSER_FAIL
                  ELSE IF g.type # NL /\ g.type # EOF
                  THEN /\ diag' = <<Msg("unexpected", g.tok.locus)>>
                       /\ pc' = "sret" /\ res' = PARSER_FAIL
                  ELSE /\ diag' = <<>>
                       /\ pc' = "loop" /\ res' = res
     ELSE IF res = PARSER_OK_NONL
     THEN /\ pc' = "loop"
          /\ done' = [done EXCEPT ![Len(stack)] = @ \cup {Top.ent.name}]
          /\ diag' = <<>>
          /\ UNCHANGED <<cur_input, res, seen>>
     ELSE IF res = PARSER_FAIL
     THEN /\ pc' = "sret"
          /\ UNCHANGED <<cur_input, res, diag, done, seen>>
     ELSE /\ pc' = "sret" /\ res' = PARSER_OK
          /\ diag' = <<>>
          /\ UNCHANGED <<cur_input, done, seen>>
  /\ UNCHANGED <<stack, listeners, services, anonymise, result, nstmt, fs>>

\* A handler is about to be called.
Calling(parser) == pc = "call" /\ Top.ent.parser = parser

(***************************************************************************)
(* Handlers of the top level.                                              *)
(***************************************************************************)
parse_include ==
  /\ Calling("parse_include")
  /\ \E d \in DrawsAt(cur_input,
         {Tok(T_STRING, f) : f \in FileNames} \cup {Tok(NL, ""), Tok(T_ERROR, "")}) :
       LET t == gettkn_expect(cur_input, d, T_STRING)
           p == push_input(t.inp, t.tok.str)
       IN /\ seen' = Saw(t.got)
          /\ IF t.tok = NullTok
             THEN /\ cur_input' = t.inp
                  /\ diag' = t.msgs
                  /\ res' = PARSER_FAIL
             ELSE /\ cur_input' = p.inp
                  /\ diag' = p.msgs
                  /\ res' = IF p.rc # 0 THEN PARSER_FAIL ELSE PARSER_OK_NONL
  /\ pc' = "ret"
  /\ UNCHANGED <<stack, listeners, services, anonymise, result, nstmt, done, fs>>

parse_end ==
  /\ Calling("parse_end")
  /\ pc' = "ret"
  /\ res' = PARSER_END
  /\ diag' = <<>>
  /\ UNCHANGED <<cur_input, stack, listeners, services, anonymise, result,
                 nstmt, done, fs, seen>>

int_set_one ==
  /\ Calling("int_set_one")
  /\ anonymise' = 1
  /\ pc' = "ret"
  /\ res' = PARSER_OK
  /\ diag' = <<>>
  /\ UNCHANGED <<cur_input, stack, listeners, services, result, nstmt, done,
                 fs, seen>>

(***************************************************************************)
(* Specifications.                                                         *)
(***************************************************************************)
InitCommon ==
  /\ cur_input = <<>>
  /\ stack = <<>>
  /\ pc = "start"
  /\ res = PARSER_OK
  /\ listeners = <<>>
  /\ services = <<>>
  /\ anonymise = 0
  /\ diag = <<>>
  /\ result = "running"
  /\ nstmt = 0
  /\ done = <<>>
  /\ seen = <<>>

Init ==
  /\ InitCommon
  /\ fs = [lazy |-> TRUE]

\* Files of Include statements, Anonymise statements and stray tokens.
IncVocab == {"Include", "Anonymise", "Bogus"}
IncOther == {Tok(NL, ""), Tok(T_NUMBER, "0"), Tok(T_STRING, "s"),
             Tok(T_LITERAL, "-"), Tok(T_ERROR, "")}
IncTerm == {Tok(NL, ""), Tok(T_LITERAL, "-"), Tok(T_ERROR, "")}

NextInc ==
  \/ parse_config_file
  \/ parser_loop(IncVocab, IncOther, MaxStmts)
  \/ parser_loop_switch(IncTerm)
  \/ parse_include
  \/ int_set_one
  \/ parse_config_file_ret

SpecInc == Init /\ [][NextInc]_vars

\* Files whose contents are fixed in advance: main.cfg and a.cfg hold any
\* tokens of their alphabets, link.cfg is a.cfg under another name, x.cfg
\* holds one statement.
MaxLen == 3

SeqsUpTo(S, n) == UNION {[1..k -> S] : k \in 0..n}

MainToks == {Tok(T_IDENT, "Include"), Tok(T_STRING, "a.cfg"),
             Tok(T_IDENT, "Anonymise"), Tok(NL, "")}
IncToks == {Tok(T_IDENT, "Include"), Tok(T_STRING, "x.cfg"),
            Tok(T_IDENT, "Anonymise"), Tok(NL, "")}

Contents(m, a) ==
  [f \in FileNames |->
     CASE f = "main.cfg" -> m
       [] f \in {"a.cfg", "link.cfg"} -> a
       [] OTHER -> <<Tok(T_IDENT, "Anonymise")>>]

InitFiles ==
  /\ InitCommon
  /\ \E m \in SeqsUpTo(MainToks, MaxLen), a \in SeqsUpTo(IncToks, MaxLen - 1) :
       fs = [lazy |-> FALSE, content |-> Contents(m, a)]

SpecFiles == InitFiles /\ [][NextInc]_vars

\* A file given as a text: every text of at most MaxText characters of Chars.
MaxText == 4

InitText ==
  /\ InitCommon
  /\ LET Chars == {"a", "_", "1", "-", "#", "\"", "\\", " ", "\t", "\n"}
     IN \E n \in 0..MaxText : \E cs \in [1..n -> Chars] :
          LET RECURSIVE str(_)
              str(i) == IF i > n THEN "" ELSE cs[i] \o str(i + 1)
          IN fs = [lazy |-> FALSE, text |-> str(1)]

\* gettkn on a text: the tokens are read one after the other up to the end of
\* the file or to an error.
gettkn_text ==
  /\ pc = "loop"
  /\ cur_input # <<>>
  /\ LET r == input_gettkn_text(Head(cur_input), fs.text)
     IN /\ cur_input' = IF r.type = EOF
                        THEN pop_input(<<r.input>> \o Tail(cur_input))
                        ELSE <<r.input>> \o Tail(cur_input)
        /\ seen' = Append(seen, r.input.token)
        /\ diag' = r.msgs
        /\ pc' = IF r.type \in {EOF, T_ERROR} THEN "done" ELSE "loop"
        /\ result' = IF r.type = EOF THEN "ok"
                     ELSE IF r.type = T_ERROR THEN "fail" ELSE result
  /\ UNCHANGED <<stack, res, listeners, services, anonymise, nstmt, done, fs>>

SpecText == InitText /\ [][parse_config_file \/ gettkn_text]_vars

(***************************************************************************)
(* Properties of the include stack.                                        *)
(***************************************************************************)
SameFile(a, b) == a.ino = b.ino /\ a.devno = b.devno

\* C1: in every reachable state the entries of the include stack have
\* pairwise-distinct (device, inode) pairs.
C1_DistinctInputs ==
  \A i, j \in 1..Len(cur_input) : i # j => ~SameFile(cur_input[i], cur_input[j])

\* Three files are open, one of them on another device with the inode
\* number of the root.
C1_Witness ==
  /\ Len(cur_input) = 3
  /\ \E i, j \in 1..3 : /\ cur_input[i].ino = cur_input[j].ino
                        /\ cur_input[i].devno # cur_input[j].devno

\* The statement parse_include has just run: the argument it read and the
\* stack push_input was called on.  A new input has no token yet, and the
\* input below it keeps the argument as its last token.
Pushed(inp) == inp # <<>> /\ Head(inp).token = ZeroTok
IncludeStack(inp) == IF Pushed(inp) THEN Tail(inp) ELSE inp
IncludeArg(inp) ==
  IF IncludeStack(inp) = <<>> THEN NullTok ELSE Head(IncludeStack(inp)).token

Matches(inp, st) ==
  {i \in 1..Len(inp) : inp[i].ino = st.st_ino /\ inp[i].devno = st.st_dev}

\* C2: an Include whose target has the (device, inode) of an input on the
\* stack is refused: the statement fails, the stack is the one push_input was
\* called on, the diagnostic is "already included (at top level)" when the
\* entry is the root and "already included" with the place of the original
\* inclusion otherwise; the failure ends the parse with a failure.
C2_Step ==
  (Calling("parse_include") /\ pc' = "ret") =>
     LET arg == IncludeArg(cur_input')
         before == IncludeStack(cur_input')
         st == stat(arg.str)
         m == Matches(before, st)
     IN (arg.type = T_STRING /\ st.ok /\ m # {}) =>
          /\ res' = PARSER_FAIL
          /\ cur_input' = before
          /\ \A i \in m :
               IF i = Len(before)
               THEN /\ Len(diag') = 1
                    /\ diag'[1].text = "already included (at top level)"
               ELSE /\ Len(diag') = 2
                    /\ diag'[1].text = "already included"
                    /\ diag'[2] = Msg("here is the place of original inclusion",
                                      before[i + 1].name)

C2_Fails ==
  /\ (pc = "ret" /\ res = PARSER_FAIL) => (pc' = "sret" /\ res' = PARSER_FAIL)
  /\ (pc = "sret" /\ res = PARSER_FAIL) => result' = "fail"

C2_DuplicateIncludeRefused == [][C2_Step /\ C2_Fails]_vars

\* a.cfg, included from main.cfg, includes itself under its other name.
C2_Witness ==
  /\ pc = "ret" /\ res = PARSER_FAIL
  /\ Len(cur_input) = 2
  /\ Head(cur_input).name = "a.cfg"
  /\ Head(cur_input).token = [type |-> T_STRING, str |-> "link.cfg", locus |-> "a.cfg"]
  /\ diag = <<Msg("already included", "a.cfg"),
              Msg("here is the place of original inclusion", "main.cfg")>>

(***************************************************************************)
(* The token stream.                                                       *)
(***************************************************************************)
RECURSIVE Pending(_)
\* The tokens the open inputs still hold, in the order of the stack.
Pending(inp) ==
  IF inp = <<>> THEN <<>>
  ELSE LET i == Head(inp)
           c == fs.content[i.name]
       IN (IF i.ready THEN <<Tok(i.token.type, i.token.str)>> ELSE <<>>)
          \o SubSeq(c, i.pos + 1, Len(c)) \o Pending(Tail(inp))

\* The tokens gettkn has returned, without their locus and without the
\* end-of-file reports.
Stream(h) ==
  LET t == SelectSeq(h, LAMBDA x : x.type # EOF)
  IN [k \in 1..Len(t) |-> Tok(t[k].type, t[k].str)]

\* C3: the parser sees the tokens of the including file with the tokens of
\* the included file spliced in right after the string argument of the
\* Include statement: a step that opens no file leaves the tokens seen
\* followed by the tokens pending unchanged, so that at the end of an input
\* the next token is the parent's; a step that opens a file has read the
\* argument from the includer and puts the whole file in front of what the
\* includer still holds; and end of file is reported only when every input
\* has been popped.  The steps are those taken with an input open.
C3_Step ==
  (cur_input # <<>> /\ pc' # "done") =>
    /\ IF Calling("parse_include") /\ Pushed(cur_input')
       THEN /\ Stream(seen') \o Pending(Tail(cur_input'))
                 = Stream(seen) \o Pending(cur_input)
            /\ seen'[Len(seen')] = IncludeArg(cur_input')
            /\ Head(cur_input').name = seen'[Len(seen')].str
            /\ Pending(cur_input')
                 = fs.content[Head(cur_input').name] \o Pending(Tail(cur_input'))
       ELSE Stream(seen') \o Pending(cur_input') = Stream(seen) \o Pending(cur_input)
    /\ \A k \in 1..Len(seen') : seen'[k].type = EOF => cur_input' = <<>>

C3_IncludeSplices == [][C3_Step]_vars

\* main.cfg is Include "a.cfg" and a newline, a.cfg is Anonymise: the
\* statement of a.cfg is ended by the newline of main.cfg.
C3_Witness ==
  /\ result = "ok"
  /\ anonymise = 1
  /\ seen = <<[type |-> T_IDENT, str |-> "Include", locus |-> "main.cfg"],
              [type |-> T_STRING, str |-> "a.cfg", locus |-> "main.cfg"],
              [type |-> T_IDENT, str |-> "Anonymise", locus |-> "a.cfg"],
              [type |-> NL, str |-> "", locus |-> "main.cfg"],
              [type |-> EOF, str |-> "", locus |-> ""]>>

(***************************************************************************)
(* Statement position.                                                     *)
(***************************************************************************)
\* C4: a token at statement position that is neither an identifier nor a
\* newline makes the section parser return PARSER_FAIL.
C4_Step ==
  (/\ pc = "loop"
   /\ cur_input' # <<>>
   /\ Head(cur_input').token.type \in {T_NUMBER, T_STRING, T_LITERAL})
  => (pc' = "sret" /\ res' = PARSER_FAIL)

C4_SyntaxErrorFails == [][C4_Step]_vars

(***************************************************************************)
(* Handlers: what they share.                                              *)
(***************************************************************************)
\* The handler returns r after emitting msgs.
Return(r, msgs) == pc' = "ret" /\ res' = r /\ diag' = msgs

\* The object of the innermost section becomes o.
SetObj(o) == stack' = [stack EXCEPT ![Len(stack)].obj = o]

\* The defaults handed down as section_data.
Dfl == stack[1].obj

\* A section handler calls parser_loop on a new object.  beg is retrange->beg,
\* the place of the token read last when parser_loop is entered: the file and
\* the number of the statement that opens the section.
Enter(sect, obj) ==
  /\ stack' = Append(stack, Frame(sect, obj)
                             @@ [beg |-> Head(cur_input').name \o ":" \o ToString(nstmt)])
  /\ done' = Append(done, {})
  /\ pc' = "loop"
  /\ diag' = <<>>

\* parser_loop has returned to the section handler, which returns r; the
\* enclosing section's object becomes o.
Leave(r, o) ==
  /\ stack' = [SubSeq(stack, 1, Len(stack) - 1) EXCEPT ![Len(stack) - 1].obj = o]
  /\ done' = SubSeq(done, 1, Len(done) - 1)
  /\ pc' = "ret"
  /\ res' = r

\* A handler that has read the tokens of t returns r with the section's
\* object set to obj, after the diagnostics of the reads and msgs.
Act(t, obj, r, msgs) ==
  /\ cur_input' = t.inp
  /\ seen' = Saw(t.got)
  /\ SetObj(obj)
  /\ Return(r, t.msgs \o msgs)
  /\ UNCHANGED <<listeners, services, anonymise, result, nstmt, done, fs>>

\* A handler that reads no token.
NoRead == [inp |-> cur_input, got |-> <<>>, msgs |-> <<>>]

\* A handler fails before it reads anything.
Fail(msgs) ==
  /\ Return(PARSER_FAIL, msgs)
  /\ UNCHANGED <<cur_input, stack, listeners, services, anonymise, result,
                 nstmt, done, fs, seen>>

SLIST_PUSH(head, e) == Append(head, e)
SLIST_EMPTY_MutNever(head) == FALSE

SLIST_EMPTY(head) == head = <<>>

\* The values a statement may be followed by: the strings S and a newline.
StringArgs(S) == {Tok(T_STRING, x) : x \in S} \cup {Tok(NL, "")}
NumberArgs(S) == {Tok(T_NUMBER, x) : x \in S} \cup {Tok(T_STRING, "1")}

(***************************************************************************)
(* Addresses.                                                              *)
(***************************************************************************)
UNIX_PATH_MAX == 108

ZeroAddr ==
  [ai_flags |-> {}, ai_family |-> "AF_UNSPEC", ai_addr |-> [host |-> "", port |-> 0]]

ADDRINFO_SET_ADDRESS(addr) == [addr EXCEPT !.ai_flags = {"AI_NUMERICHOST"}]
ADDRINFO_HAS_ADDRESS(addr) == "AI_NUMERICHOST" \in addr.ai_flags
ADDRINFO_SET_PORT(addr) == [addr EXCEPT !.ai_flags = @ \cup {"AI_NUMERICSERV"}]
ADDRINFO_HAS_PORT_MutNever(addr) == FALSE

ADDRINFO_HAS_PORT(addr) == "AI_NUMERICSERV" \in addr.ai_flags

\* The resolver: the family of a host name, or "" when it does not resolve.
get_host(name) ==
  CASE name = "127.0.0.1" -> "AF_INET"
    [] name = "::1" -> "AF_INET6"
    [] OTHER -> ""

\* getaddrinfo on a service: the port, or -1 when there is no such service.
getaddrinfo(serv) ==
  CASE serv = "80" -> 80
    [] serv = "http" -> 80
    [] serv = "8080" -> 8080
    [] serv = "443" -> 443
    [] OTHER -> -1

assign_address_internal_MutShort(addr, tok) ==
  LET r == [rc |-> PARSER_FAIL, addr |-> addr, msgs |-> <<>>]
  IN IF tok = NullTok
     THEN r
     ELSE IF tok.type \notin {T_IDENT, T_LITERAL, T_STRING}
     THEN [r EXCEPT !.msgs = <<Msg("expected hostname or IP address", tok.locus)>>]
     ELSE IF get_host(tok.str) = ""
     THEN IF Len(tok.str) >= UNIX_PATH_MAX
          THEN [r EXCEPT !.msgs = <<Msg("UNIX path name too long", tok.locus)>>]
          ELSE [r EXCEPT !.rc = PARSER_OK,
                         !.addr = ADDRINFO_SET_ADDRESS(
                                    [addr EXCEPT !.ai_family = "AF_UNIX",
                                                 !.ai_addr = [host |-> tok.str, port |-> 0]])]
     ELSE [r EXCEPT !.rc = PARSER_OK,
                    !.addr = ADDRINFO_SET_ADDRESS(
                               [addr EXCEPT !.ai_family = get_host(tok.str),
                                            !.ai_addr = [host |-> tok.str, port |-> 0]])]

assign_address_internal(addr, tok) ==
  LET r == [rc |-> PARSER_FAIL, addr |-> addr, msgs |-> <<>>]
  IN IF tok = NullTok
     THEN r
     ELSE IF tok.type \notin {T_IDENT, T_LITERAL, T_STRING}
     THEN [r EXCEPT !.msgs = <<Msg("expected hostname or IP address", tok.locus)>>]
     ELSE IF get_host(tok.str) = ""
     THEN IF Len(tok.str) > UNIX_PATH_MAX
          THEN [r EXCEPT !.msgs = <<Msg("UNIX path name too long", tok.locus)>>]
          ELSE [r EXCEPT !.rc = PARSER_OK,
                         !.addr = ADDRINFO_SET_ADDRESS(
                                    [addr EXCEPT !.ai_family = "AF_UNIX",
                                                 !.ai_addr = [host |-> tok.str, port |-> 0]])]
     ELSE [r EXCEPT !.rc = PARSER_OK,
                    !.addr = ADDRINFO_SET_ADDRESS(
                               [addr EXCEPT !.ai_family = get_host(tok.str),
                                            !.ai_addr = [host |-> tok.str, port |-> 0]])]

assign_port_internal(addr, tok) ==
  LET r == [rc |-> PARSER_FAIL, addr |-> addr, msgs |-> <<>>]
  IN IF tok = NullTok
     THEN r
     ELSE IF tok.type \notin {T_IDENT, T_NUMBER}
     THEN [r EXCEPT !.msgs = <<Msg("expected port number or service name", tok.locus)>>]
     ELSE IF addr.ai_family \notin {"AF_INET", "AF_INET6"}
     THEN [r EXCEPT !.msgs = <<Msg("Port is not applicable to this address family",
                                  tok.locus)>>]
     ELSE IF getaddrinfo(tok.str) < 0
     THEN [r EXCEPT !.msgs = <<Msg("bad port number", tok.locus)>>]
     ELSE [r EXCEPT !.rc = PARSER_OK,
                    !.addr = ADDRINFO_SET_PORT(
                               [addr EXCEPT !.ai_addr.port = getaddrinfo(tok.str)])]

assign_address ==
  /\ Calling("assign_address")
  /\ LET addr == Top.obj[Top.ent.off]
     IN IF ADDRINFO_HAS_ADDRESS(addr)
        THEN Fail(<<Msg("Duplicate Address statement", "")>>)
        ELSE \E d \in DrawsAt(cur_input,
         {Tok(T_LITERAL, "127.0.0.1"), Tok(T_LITERAL, "::1"), Tok(T_STRING, "/tmp/sock"), Tok(T_STRING, "/xxxxxxxxxxxxxxxxxxxxxxxxxxxxxxxxxxxxxxxxxxxxxxxxxxxxxxxxxxxxxxxxxxxxxxxxxxxxxxxxxxxxxxxxxxxxxxxxxxxxxxxxxxxx"), Tok(T_NUMBER, "80"), Tok(NL, "")}) :
               LET t == gettkn_any(cur_input, d)
                   r == assign_address_internal(addr, t.tok)
               IN Act(t, [Top.obj EXCEPT ![Top.ent.off] = r.addr], r.rc, r.msgs)

assign_port ==
  /\ Calling("assign_port")
  /\ LET addr == Top.obj[Top.ent.off]
     IN IF ADDRINFO_HAS_PORT(addr)
        THEN Fail(<<Msg("Duplicate port statement", "")>>)
        ELSE IF ~ADDRINFO_HAS_ADDRESS(addr)
        THEN Fail(<<Msg("Address statement should precede Port", "")>>)
        ELSE \E d \in DrawsAt(cur_input,
         {Tok(T_NUMBER, "80"), Tok(T_NUMBER, "8080"), Tok(T_IDENT, "nosuch"), Tok(T_STRING, "80")}) :
               LET t == gettkn_any(cur_input, d)
                   r == assign_port_internal(addr, t.tok)
               IN Act(t, [Top.obj EXCEPT ![Top.ent.off] = r.addr], r.rc, r.msgs)

check_addrinfo_MutOK(addr, name) == <<>>

\* check_addrinfo: the diagnostic, none when the address is complete.
check_addrinfo(addr, name) ==
  IF ADDRINFO_HAS_ADDRESS(addr)
  THEN IF ~ADDRINFO_HAS_PORT(addr) /\ addr.ai_family \in {"AF_INET", "AF_INET6"}
       THEN <<Msg("missing Port declaration", name)>>
       ELSE <<>>
  ELSE <<Msg("missing Address declaration", name)>>

(***************************************************************************)
(* Listeners.                                                              *)
(***************************************************************************)
listener_alloc(dfl) ==
  [sock |-> -1, to |-> dfl.clnt_to, rewr_loc |-> 1, log_level |-> dfl.log_level,
   verb |-> [xhttp |-> 0, flags |-> {"REG_ICASE", "REG_NEWLINE", "REG_EXTENDED"}],
   addr |-> ZeroAddr, services |-> <<>>, ctx_head |-> <<>>, has_other |-> 0,
   ssl_op_enable |-> {}, ssl_op_disable |-> {}, clnt_check |-> 0,
   allow_client_reneg |-> 0, noHTTPS11 |-> 0]

parse_listen_http ==
  /\ Calling("parse_listen_http")
  /\ UNCHANGED <<cur_input, res, listeners, services, anonymise, result, nstmt,
                 fs, seen>>
  /\ Enter("http", listener_alloc(Dfl))

parse_listen_http_ret ==
  /\ pc = "sret"
  /\ Top.sect = "http"
  /\ LET lst == Top.obj
         chk == check_addrinfo(lst.addr, "ListenHTTP")
     IN IF res # PARSER_OK
        THEN /\ Leave(PARSER_FAIL, Parent.obj)
             /\ UNCHANGED <<listeners, diag>>
        ELSE IF chk # <<>>
        THEN /\ Leave(PARSER_FAIL, Parent.obj)
             /\ diag' = chk
             /\ UNCHANGED listeners
        ELSE /\ Leave(PARSER_OK, Parent.obj)
             /\ listeners' = SLIST_PUSH(listeners, lst)
             /\ diag' = <<>>
  /\ UNCHANGED <<cur_input, services, anonymise, result, nstmt, fs, seen>>

\* What the sibling process hands over: the family of the socket received,
\* or the call that failed.
SocketFromResults ==
  {"AF_INET", "AF_INET6", "AF_UNIX",
   "socket", "connect", "can't get socket", "can't get socket address"}

listener_parse_socket_from ==
  /\ Calling("listener_parse_socket_from")
  /\ LET lst == Top.obj
     IN IF ADDRINFO_HAS_ADDRESS(lst.addr)
        THEN Fail(<<Msg("Duplicate Address or SocketFrom statement", "")>>)
        ELSE \E d \in DrawsAt(cur_input, StringArgs({"/tmp/sock"})),
                 got \in SocketFromResults :
               LET t == gettkn_expect(cur_input, d, T_STRING)
                   a == assign_address_internal(ZeroAddr, t.tok)
               IN IF a.rc # PARSER_OK
                  THEN Act(t, lst, PARSER_FAIL, a.msgs)
                  ELSE IF got \notin {"AF_INET", "AF_INET6", "AF_UNIX"}
                  THEN Act(t, lst, PARSER_FAIL, <<Msg(got, "")>>)
                  ELSE Act(t, [lst EXCEPT
                                 !.addr = ADDRINFO_SET_PORT(ADDRINFO_SET_ADDRESS(
                                            [@ EXCEPT !.ai_family = got,
                                                      !.ai_addr = [host |-> "fd", port |-> 0]])),
                                 !.sock = 3],
                           PARSER_OK, <<>>)

(***************************************************************************)
(* Services, backends and sessions.                                        *)
(***************************************************************************)
\* A null pointer; a pointer to a value x is <<x>>.
NULL == <<>>

\* regcomp: the patterns that do not compile have an unbalanced parenthesis.
regcomp(expr) ==
  expr \notin {"(", "Cookie[^:]*:.*[ \t](=", "[?&](=", "(:[ \t]*"}

parse_service_MutNoDefault ==
  /\ Calling("parse_service")
  /\ \E d \in DrawsAt(cur_input,
         {Tok(T_STRING, "svc"), Tok(NL, ""), Tok(T_ERROR, "")}) :
       LET t == gettkn_any(cur_input, d)
           ext == [name |-> IF t.tok.type = T_STRING THEN t.tok.str ELSE "",
                   sess_type |-> "SESS_NONE", sess_ttl |-> 0,
                   sess_start |-> [pat |-> "", flags |-> {}],
                   sess_pat |-> [pat |-> "", flags |-> {}],
                   backends |-> <<>>, emergency |-> NULL,
                   tot_pri |-> 0, abs_pri |-> 0, disabled |-> 0,
                   url |-> <<>>, svc_url |-> <<>>,
                   ignore_case |-> 0]
       IN /\ seen' = Saw(t.got)
          /\ IF t.tok = NullTok
             THEN /\ cur_input' = t.inp
                  /\ Return(PARSER_FAIL, t.msgs)
                  /\ UNCHANGED <<stack, done>>
             ELSE /\ cur_input' = IF t.tok.type = T_STRING
                                  THEN t.inp ELSE putback_tkn(t.inp)
                  /\ Enter("service", ext)
                  /\ res' = res
  /\ UNCHANGED <<listeners, services, anonymise, result, nstmt, fs>>

parse_service ==
  /\ Calling("parse_service")
  /\ \E d \in DrawsAt(cur_input,
         {Tok(T_STRING, "svc"), Tok(NL, ""), Tok(T_ERROR, "")}) :
       LET t == gettkn_any(cur_input, d)
           ext == [name |-> IF t.tok.type = T_STRING THEN t.tok.str ELSE "",
                   sess_type |-> "SESS_NONE", sess_ttl |-> 0,
                   sess_start |-> [pat |-> "", flags |-> {}],
                   sess_pat |-> [pat |-> "", flags |-> {}],
                   backends |-> <<>>, emergency |-> NULL,
                   tot_pri |-> 0, abs_pri |-> 0, disabled |-> 0,
                   url |-> <<>>, svc_url |-> <<>>,
                   ignore_case |-> Dfl.ignore_case]
       IN /\ seen' = Saw(t.got)
          /\ IF t.tok = NullTok
             THEN /\ cur_input' = t.inp
                  /\ Return(PARSER_FAIL, t.msgs)
                  /\ UNCHANGED <<stack, done>>
             ELSE /\ cur_input' = IF t.tok.type = T_STRING
                                  THEN t.inp ELSE putback_tkn(t.inp)
                  /\ Enter("service", ext)
                  /\ res' = res
  /\ UNCHANGED <<listeners, services, anonymise, result, nstmt, fs>>

SumPri_MutCount(bes, all) ==
  IF all THEN Len(bes)
  ELSE IF bes = <<>> THEN 0 ELSE Head(bes).priority + Len(Tail(bes))

RECURSIVE SumPri(_, _)
\* The priorities of the backends, of all of them or of those not disabled.
SumPri(bes, all) ==
  IF bes = <<>> THEN 0
  ELSE (IF all \/ Head(bes).disabled = 0 THEN Head(bes).priority ELSE 0)
       + SumPri(Tail(bes), all)

parse_service_ret_MutNoWarn ==
  /\ pc = "sret"
  /\ Top.sect = "service"
  /\ LET ext == Top.obj
         flags == {"REG_NEWLINE", "REG_EXTENDED"}
                    \cup (IF ext.ignore_case # 0 THEN {"REG_ICASE"} ELSE {})
         bad == {i \in 1..Len(ext.url) : ~regcomp(ext.url[i].str)}
         svc == [ext EXCEPT !.tot_pri = SumPri(ext.backends, FALSE),
                            !.abs_pri = SumPri(ext.backends, TRUE),
                            !.svc_url = [i \in 1..Len(ext.url) |->
                                           [pat |-> ext.url[i].str, flags |-> flags]],
                            !.url = <<>>]
         warn == <<>>
     IN IF res # PARSER_OK
        THEN /\ Leave(PARSER_FAIL, Parent.obj)
             /\ UNCHANGED <<services, diag>>
        ELSE IF bad # {}
        THEN /\ Leave(PARSER_FAIL, Parent.obj)
             /\ diag' = warn \o <<Msg("regcomp", ext.url[Min(bad)].locus)>>
             /\ UNCHANGED services
        ELSE IF Parent.sect = "top"
        THEN /\ Leave(PARSER_OK, Parent.obj)
             /\ services' = SLIST_PUSH(services, svc)
             /\ diag' = warn
        ELSE /\ Leave(PARSER_OK, [Parent.obj EXCEPT !.services = SLIST_PUSH(@, svc)])
             /\ diag' = warn
             /\ UNCHANGED services
  /\ UNCHANGED <<cur_input, listeners, anonymise, result, nstmt, fs, seen>>

parse_service_ret ==
  /\ pc = "sret"
  /\ Top.sect = "service"
  /\ LET ext == Top.obj
         flags == {"REG_NEWLINE", "REG_EXTENDED"}
                    \cup (IF ext.ignore_case # 0 THEN {"REG_ICASE"} ELSE {})
         bad == {i \in 1..Len(ext.url) : ~regcomp(ext.url[i].str)}
         svc == [ext EXCEPT !.tot_pri = SumPri(ext.backends, FALSE),
                            !.abs_pri = SumPri(ext.backends, TRUE),
                            !.svc_url = [i \in 1..Len(ext.url) |->
                                           [pat |-> ext.url[i].str, flags |-> flags]],
                            !.url = <<>>]
         warn == IF ext.backends = <<>>
                 THEN <<Msg("warning: no backends defined", "")>> ELSE <<>>
     IN IF res # PARSER_OK
        THEN /\ Leave(PARSER_FAIL, Parent.obj)
             /\ UNCHANGED <<services, diag>>
        ELSE IF bad # {}
        THEN /\ Leave(PARSER_FAIL, Parent.obj)
             /\ diag' = warn \o <<Msg("regcomp", ext.url[Min(bad)].locus)>>
             /\ UNCHANGED services
        ELSE IF Parent.sect = "top"
        THEN /\ Leave(PARSER_OK, Parent.obj)
             /\ services' = SLIST_PUSH(services, svc)
             /\ diag' = warn
        ELSE /\ Leave(PARSER_OK, [Parent.obj EXCEPT !.services = SLIST_PUSH(@, svc)])
             /\ diag' = warn
             /\ UNCHANGED services
  /\ UNCHANGED <<cur_input, listeners, anonymise, result, nstmt, fs, seen>>

\* A TLS context: the calls made on it.
SSL_CTX_new == [calls |-> {}]

parse_backend_internal_MutPriority(dfl) ==
  [be_type |-> "BE_BACKEND", addr |-> ZeroAddr, ha_addr |-> ZeroAddr,
   to |-> dfl.be_to, conn_to |-> dfl.be_connto, ws_to |-> dfl.ws_to,
   alive |-> 1, priority |-> 1, disabled |-> 0, ctx |-> NULL]

parse_backend_internal(dfl) ==
  [be_type |-> "BE_BACKEND", addr |-> ZeroAddr, ha_addr |-> ZeroAddr,
   to |-> dfl.be_to, conn_to |-> dfl.be_connto, ws_to |-> dfl.ws_to,
   alive |-> 1, priority |-> 5, disabled |-> 0, ctx |-> NULL]

\* parse_backend that hands the defaults of the program to
\* parse_backend_internal, whatever the top level has set.
parse_backend_MutBuiltin ==
  /\ Calling("parse_backend")
  /\ UNCHANGED <<cur_input, res, listeners, services, anonymise, result, nstmt,
                 fs, seen>>
  /\ Enter("backend", parse_backend_internal(pound_defaults))

parse_backend ==
  /\ Calling("parse_backend")
  /\ UNCHANGED <<cur_input, res, listeners, services, anonymise, result, nstmt,
                 fs, seen>>
  /\ Enter("backend", parse_backend_internal(Dfl))

parse_emergency ==
  /\ Calling("parse_emergency")
  /\ UNCHANGED <<cur_input, res, listeners, services, anonymise, result, nstmt,
                 fs, seen>>
  /\ Enter("emergency",
           parse_backend_internal([Dfl EXCEPT !.be_to = 120, !.be_connto = 120,
                                              !.ws_to = 120]))

\* parse_backend_internal after parser_loop, and the rest of parse_backend
\* or parse_emergency.
parse_backend_ret_MutRetain ==
  /\ pc = "sret"
  /\ Top.sect \in {"backend", "emergency"}
  /\ LET be == Top.obj
         chk == check_addrinfo(be.addr, "Backend")
     IN IF res # PARSER_OK
        THEN /\ Leave(PARSER_FAIL, [Parent.obj EXCEPT !.backends = SLIST_PUSH(@, be)])
             /\ diag' = diag
        ELSE IF chk # <<>>
        THEN /\ Leave(PARSER_FAIL, Parent.obj)
             /\ diag' = chk
        ELSE IF Top.sect = "backend"
        THEN /\ Leave(PARSER_OK, [Parent.obj EXCEPT !.backends = SLIST_PUSH(@, be)])
             /\ diag' = <<>>
        ELSE /\ Leave(PARSER_OK, [Parent.obj EXCEPT !.emergency = <<be>>])
             /\ diag' = <<>>
  /\ UNCHANGED <<cur_input, listeners, services, anonymise, result, nstmt, fs,
                 seen>>

parse_backend_ret ==
  /\ pc = "sret"
  /\ Top.sect \in {"backend", "emergency"}
  /\ LET be == Top.obj
         chk == check_addrinfo(be.addr, "Backend")
     IN IF res # PARSER_OK
        THEN /\ Leave(PARSER_FAIL, Parent.obj)
             /\ diag' = diag
        ELSE IF chk # <<>>
        THEN /\ Leave(PARSER_FAIL, Parent.obj)
             /\ diag' = chk
        ELSE IF Top.sect = "backend"
        THEN /\ Leave(PARSER_OK, [Parent.obj EXCEPT !.backends = SLIST_PUSH(@, be)])
             /\ diag' = <<>>
        ELSE /\ Leave(PARSER_OK, [Parent.obj EXCEPT !.emergency = <<be>>])
             /\ diag' = <<>>
  /\ UNCHANGED <<cur_input, listeners, services, anonymise, result, nstmt, fs,
                 seen>>

(***************************************************************************)
(* Value parsers.                                                          *)
(***************************************************************************)
\* strtol and strtoul on the lexeme of a T_NUMBER token, which is a run of
\* digits; -1 stands for a value that is out of the range of the type.
strtol(str) ==
  CASE str = "0" -> 0 [] str = "1" -> 1 [] str = "2" -> 2 [] str = "3" -> 3
    [] str = "4" -> 4 [] str = "5" -> 5 [] str = "9" -> 9 [] str = "10" -> 10
    [] str = "300" -> 300 [] OTHER -> -1

\* assign_int on the token read by gettkn_expect (T_NUMBER).
assign_int(tok) ==
  IF tok = NullTok THEN [rc |-> PARSER_FAIL, n |-> 0, msgs |-> <<>>]
  ELSE IF strtol(tok.str) < 0
  THEN [rc |-> PARSER_FAIL, n |-> 0, msgs |-> <<Msg("bad integer number", "")>>]
  ELSE [rc |-> PARSER_OK, n |-> strtol(tok.str), msgs |-> <<>>]

assign_int_range_MutOpenMax(tok, min, max) ==
  LET r == assign_int(tok)
  IN IF r.rc # PARSER_OK THEN r
     ELSE IF ~(min <= r.n /\ r.n <= max + 1)
     THEN [rc |-> PARSER_FAIL, n |-> 0,
           msgs |-> <<Msg("value out of allowed range", "")>>]
     ELSE r

assign_int_range(tok, min, max) ==
  LET r == assign_int(tok)
  IN IF r.rc # PARSER_OK THEN r
     ELSE IF ~(min <= r.n /\ r.n <= max)
     THEN [rc |-> PARSER_FAIL, n |-> 0,
           msgs |-> <<Msg("value out of allowed range", "")>>]
     ELSE r

assign_bool_MutCaseless(tok) ==
  IF tok = NullTok THEN [rc |-> PARSER_FAIL, n |-> 0, msgs |-> <<>>]
  ELSE IF tok.str \in {"1", "yes", "true", "on", "Yes", "ON"}
  THEN [rc |-> PARSER_OK, n |-> 1, msgs |-> <<>>]
  ELSE IF tok.str \in {"0", "no", "false", "off"}
  THEN [rc |-> PARSER_OK, n |-> 0, msgs |-> <<>>]
  ELSE [rc |-> PARSER_FAIL, n |-> 0,
        msgs |-> <<Msg("not a boolean value", ""), Msg("valid booleans are", "")>>]

\* assign_bool on the token read by gettkn_expect_mask (T_UNQ).
assign_bool(tok) ==
  IF tok = NullTok THEN [rc |-> PARSER_FAIL, n |-> 0, msgs |-> <<>>]
  ELSE IF tok.str \in {"1", "yes", "true", "on"}
  THEN [rc |-> PARSER_OK, n |-> 1, msgs |-> <<>>]
  ELSE IF tok.str \in {"0", "no", "false", "off"}
  THEN [rc |-> PARSER_OK, n |-> 0, msgs |-> <<>>]
  ELSE [rc |-> PARSER_FAIL, n |-> 0,
        msgs |-> <<Msg("not a boolean value", ""), Msg("valid booleans are", "")>>]

set_proto_opt_MutOwnBit(tok) ==
  LET r == [rc |-> PARSER_OK, n |-> {}, msgs |-> <<>>]
  IN IF tok = NullTok THEN [r EXCEPT !.rc = PARSER_FAIL]
     ELSE CASE tok.str = "SSLv2" -> [r EXCEPT !.n = {"SSL_OP_NO_SSLv2"}]
            [] tok.str = "SSLv3" -> [r EXCEPT !.n = {"SSL_OP_NO_SSLv2", "SSL_OP_NO_SSLv3"}]
            [] tok.str = "TLSv1" ->
                 [r EXCEPT !.n = {"SSL_OP_NO_SSLv2", "SSL_OP_NO_SSLv3", "SSL_OP_NO_TLSv1"}]
            [] tok.str = "TLSv1_1" ->
                 [r EXCEPT !.n = {"SSL_OP_NO_TLSv1_1"}]
            [] tok.str = "TLSv1_2" ->
                 [r EXCEPT !.n = {"SSL_OP_NO_SSLv2", "SSL_OP_NO_SSLv3", "SSL_OP_NO_TLSv1",
                                  "SSL_OP_NO_TLSv1_1", "SSL_OP_NO_TLSv1_2"}]
            [] OTHER -> [r EXCEPT !.rc = PARSER_FAIL,
                                  !.msgs = <<Msg("unrecognized protocol name", "")>>]

\* set_proto_opt on the token read by gettkn_expect (T_IDENT): the options
\* to add.  Protocol names are compared with their case.
set_proto_opt(tok) ==
  LET r == [rc |-> PARSER_OK, n |-> {}, msgs |-> <<>>]
  IN IF tok = NullTok THEN [r EXCEPT !.rc = PARSER_FAIL]
     ELSE CASE tok.str = "SSLv2" -> [r EXCEPT !.n = {"SSL_OP_NO_SSLv2"}]
            [] tok.str = "SSLv3" -> [r EXCEPT !.n = {"SSL_OP_NO_SSLv2", "SSL_OP_NO_SSLv3"}]
            [] tok.str = "TLSv1" ->
                 [r EXCEPT !.n = {"SSL_OP_NO_SSLv2", "SSL_OP_NO_SSLv3", "SSL_OP_NO_TLSv1"}]
            [] tok.str = "TLSv1_1" ->
                 [r EXCEPT !.n = {"SSL_OP_NO_SSLv2", "SSL_OP_NO_SSLv3", "SSL_OP_NO_TLSv1",
                                  "SSL_OP_NO_TLSv1_1"}]
            [] tok.str = "TLSv1_2" ->
                 [r EXCEPT !.n = {"SSL_OP_NO_SSLv2", "SSL_OP_NO_SSLv3", "SSL_OP_NO_TLSv1",
                                  "SSL_OP_NO_TLSv1_1", "SSL_OP_NO_TLSv1_2"}]
            [] OTHER -> [r EXCEPT !.rc = PARSER_FAIL,
                                  !.msgs = <<Msg("unrecognized protocol name", "")>>]

ProtoArgs ==
  {Tok(T_IDENT, "SSLv3"), Tok(T_IDENT, "TLSv1_1"), Tok(T_IDENT, "tlsv1"), Tok(T_NUMBER, "3")}

(***************************************************************************)
(* TLS statements of a listener.                                           *)
(***************************************************************************)
\* What the TLS library finds in a file: the CN of a certificate with its
\* key, "" for a certificate with no CN; other files do not load.
PemFiles == {"a.pem", "ca.pem", "nocn.pem", "empty.pem"}

\* X509_NAME_oneline on the subject of the certificate of a file.
X509_NAME_oneline(file) ==
  CASE file = "a.pem" -> "/C=US/O=Acme/CN=a.example.org"
    [] file = "empty.pem" -> "/C=US/CN="
    [] OTHER -> "/CN=b.example.org/O=Acme"

\* get_subjectaltnames on the certificate of a file: the names of type DNS
\* of the subjectAltName extension, popped from the end of the stack, so
\* that the last name of the certificate comes first.
get_subjectaltnames(file) ==
  LET san_stack ==
        CASE file = "a.pem" -> <<[type |-> "GEN_DNS", name |-> "www.example.org"],
                                 [type |-> "GEN_IPADD", name |-> "10.0.0.1"],
                                 [type |-> "GEN_DNS", name |-> "*.example.net"]>>
          [] file = "empty.pem" -> <<[type |-> "GEN_DNS", name |-> "*.example.org"]>>
          [] OTHER -> <<>>
      RECURSIVE pop(_)
      pop(st) == IF st = <<>> THEN <<>>
                 ELSE (IF st[Len(st)].type = "GEN_DNS" THEN <<st[Len(st)].name>> ELSE <<>>)
                        \o pop(SubSeq(st, 1, Len(st) - 1))
  IN pop(san_stack)

\* extract_cn: the characters after the first "cn=", in either case, that
\* is followed up to the end of the string by characters of the class
\* "-*.A-Za-z0-9" only; found is FALSE for NULL.  A position after the last
\* character holds the terminating zero, "" here.
extract_cn(str) ==
  LET class ==
    {"-", "*", ".", "A", "B", "C", "D", "E", "F", "G", "H", "I", "J", "K",
     "L", "M", "N", "O", "P", "Q", "R", "S", "T", "U", "V", "W", "X", "Y",
     "Z", "a", "b", "c", "d", "e", "f", "g", "h", "i", "j", "k", "l", "m",
     "n", "o", "p", "q", "r", "s", "t", "u", "v", "w", "x", "y", "z", "0",
     "1", "2", "3", "4", "5", "6", "7", "8", "9"}
      ch(i) == IF i <= Len(str) THEN SubSeq(str, i, i) ELSE ""
      RECURSIVE run(_)
      run(i) == IF ch(i) \in class THEN run(i + 1) ELSE i
      RECURSIVE at(_)
      at(p) ==
        IF ch(p) = ""
        THEN [found |-> FALSE, cn |-> ""]
        ELSE IF ch(p) \in {"c", "C"} /\ ch(p + 1) \in {"n", "N"} /\ ch(p + 2) = "="
        THEN LET e == run(p + 3)
             IN IF ch(e) = ""
                THEN [found |-> TRUE, cn |-> SubSeq(str, p + 3, e - 1)]
                ELSE at(e + 1)
        ELSE at(p + 1)
  IN at(1)

\* A call made on the first context of the list only.
SSL_CTX_each_MutFirst(head, call) ==
  [i \in 1..Len(head) |->
     IF i = 1 THEN [head[i] EXCEPT !.ctx.calls = @ \cup {call}] ELSE head[i]]

\* A call made on every context of the list.
SSL_CTX_each(head, call) ==
  [i \in 1..Len(head) |-> [head[i] EXCEPT !.ctx.calls = @ \cup {call}]]

parse_listen_https ==
  /\ Calling("parse_listen_https")
  /\ UNCHANGED <<cur_input, res, listeners, services, anonymise, result, nstmt,
                 fs, seen>>
  /\ Enter("https",
           [listener_alloc(Dfl) EXCEPT
              !.ssl_op_enable = {"SSL_OP_ALL", "SSL_OP_NO_COMPRESSION"},
              !.ssl_op_disable = {"SSL_OP_ALLOW_UNSAFE_LEGACY_RENEGOTIATION",
                                  "SSL_OP_LEGACY_SERVER_CONNECT",
                                  "SSL_OP_DONT_INSERT_EMPTY_FRAGMENTS"}])

parse_listen_https_ret ==
  /\ pc = "sret"
  /\ Top.sect = "https"
  /\ LET lst == Top.obj
         chk == check_addrinfo(lst.addr, "ListenHTTPS")
         ctxs == SSL_CTX_each(
                   SSL_CTX_each(
                     SSL_CTX_each(
                       [i \in 1..Len(lst.ctx_head) |->
                          IF i = 1
                          THEN [lst.ctx_head[i] EXCEPT
                                  !.ctx.calls = @ \cup {<<"servername_callback", "SNI_server_name">>}]
                          ELSE lst.ctx_head[i]],
                       <<"set_app_data", "lst">>),
                     <<"set_options", lst.ssl_op_enable>>),
                   <<"clear_options", lst.ssl_op_disable>>)
     IN IF res # PARSER_OK
        THEN /\ Leave(PARSER_FAIL, Parent.obj)
             /\ UNCHANGED <<listeners, diag>>
        ELSE IF chk # <<>>
        THEN /\ Leave(PARSER_FAIL, Parent.obj)
             /\ diag' = chk
             /\ UNCHANGED listeners
        ELSE IF SLIST_EMPTY(lst.ctx_head)
        THEN /\ Leave(PARSER_FAIL, Parent.obj)
             /\ diag' = <<Msg("Cert statement is missing", "ListenHTTPS")>>
             /\ UNCHANGED listeners
        ELSE /\ Leave(PARSER_OK, Parent.obj)
             /\ listeners' = SLIST_PUSH(listeners, [lst EXCEPT !.ctx_head = ctxs])
             /\ diag' = <<>>
  /\ UNCHANGED <<cur_input, services, anonymise, result, nstmt, fs, seen>>

https_parse_cert ==
  /\ Calling("https_parse_cert")
  /\ LET lst == Top.obj
     IN IF lst.has_other # 0
        THEN Fail(<<Msg("Cert directives MUST precede other SSL-specific directives",
                        "")>>)
        ELSE \E d \in DrawsAt(cur_input, StringArgs({"a.pem", "nocn.pem", "empty.pem", "none.pem"})) :
               LET t == gettkn_expect(cur_input, d, T_STRING)
                   cnp == extract_cn(X509_NAME_oneline(t.tok.str))
                   pc_ == [ctx |-> SSL_CTX_new, server_name |-> cnp.cn,
                           subjectAltNames |-> get_subjectaltnames(t.tok.str)]
               IN IF t.tok = NullTok
                  THEN Act(t, lst, PARSER_FAIL, <<>>)
                  ELSE IF t.tok.str \notin PemFiles
                  THEN Act(t, lst, PARSER_FAIL,
                           <<Msg("SSL_CTX_use_certificate_chain_file", "")>>)
                  ELSE IF ~cnp.found
                  THEN Act(t, lst, PARSER_FAIL,
                           <<Msg("no CN in certificate subject name", "")>>)
                  ELSE Act(t, [lst EXCEPT !.ctx_head = SLIST_PUSH(@, pc_)],
                           PARSER_OK, <<>>)

\* The server names of the ClientHello.
ServerNames == {"a.example.org", "b.example.org", "www.example.net", "x.org",
                "A.EXAMPLE.ORG", "B.Example.Org"}

\* SNI_server_name that walks the contexts from the last to the first.
SNI_server_name_MutLast ==
  /\ pc = "done" /\ result = "ok"
  /\ \E l \in 1..Len(listeners), sent \in BOOLEAN, server_name \in ServerNames :
       LET ctx_head == listeners[l].ctx_head
           fnmatch(pattern, string) ==
             LET p(i) == SubSeq(pattern, i, i)
                 RECURSIVE at(_, _)
                 at(i, j) ==
                   IF i > Len(pattern) THEN j > Len(string)
                   ELSE IF p(i) = "*"
                   THEN \E k \in j..(Len(string) + 1) : at(i + 1, k)
                   ELSE IF p(i) = "?"
                   THEN j <= Len(string) /\ at(i + 1, j + 1)
                   ELSE /\ j <= Len(string)
                        /\ SubSeq(string, j, j) = p(i)
                        /\ at(i + 1, j + 1)
             IN at(1, 1)
           matches(pc_) ==
             \/ fnmatch(pc_.server_name, server_name)
             \/ \E i \in 1..Len(pc_.subjectAltNames) :
                  fnmatch(pc_.subjectAltNames[i], server_name)
           RECURSIVE walk(_)
           walk(i) == IF i < 1 THEN 1
                      ELSE IF matches(ctx_head[i]) THEN i
                      ELSE walk(i - 1)
       IN /\ ctx_head # <<>>
          /\ IF ~sent
             THEN /\ result' = "SSL_TLSEXT_ERR_NOACK"
                  /\ listeners' = listeners
             ELSE /\ result' = "SSL_TLSEXT_ERR_OK"
                  /\ listeners' = [listeners EXCEPT
                        ![l].ctx_head[walk(Len(ctx_head))].ctx.calls =
                           @ \cup {<<"SSL_set_SSL_CTX", server_name>>}]
  /\ pc' = "exit"
  /\ UNCHANGED <<cur_input, stack, res, services, anonymise, diag, nstmt, done,
                 fs, seen>>

\* SNI_server_name, the callback of the first context of a listener, called
\* with the server name of a ClientHello once the configuration is read.
\* SSL_get_servername gives NULL when no name was sent.  The connection is
\* bound with SSL_set_SSL_CTX, which is recorded as a call on the context;
\* the value returned is kept in result.  The patterns hold no bracket
\* expression and no backslash.
SNI_server_name ==
  /\ pc = "done" /\ result = "ok"
  /\ \E l \in 1..Len(listeners), sent \in BOOLEAN, server_name \in ServerNames :
       LET ctx_head == listeners[l].ctx_head
           fnmatch(pattern, string) ==
             LET p(i) == SubSeq(pattern, i, i)
                 RECURSIVE at(_, _)
                 at(i, j) ==
                   IF i > Len(pattern) THEN j > Len(string)
                   ELSE IF p(i) = "*"
                   THEN \E k \in j..(Len(string) + 1) : at(i + 1, k)
                   ELSE IF p(i) = "?"
                   THEN j <= Len(string) /\ at(i + 1, j + 1)
                   ELSE /\ j <= Len(string)
                        /\ SubSeq(string, j, j) = p(i)
                        /\ at(i + 1, j + 1)
             IN at(1, 1)
           matches(pc_) ==
             \/ fnmatch(pc_.server_name, server_name)
             \/ \E i \in 1..Len(pc_.subjectAltNames) :
                  fnmatch(pc_.subjectAltNames[i], server_name)
           RECURSIVE walk(_)
           walk(i) == IF i > Len(ctx_head) THEN 1
                      ELSE IF matches(ctx_head[i]) THEN i
                      ELSE walk(i + 1)
       IN /\ ctx_head # <<>>
          /\ IF ~sent
             THEN /\ result' = "SSL_TLSEXT_ERR_NOACK"
                  /\ listeners' = listeners
             ELSE /\ result' = "SSL_TLSEXT_ERR_OK"
                  /\ listeners' = [listeners EXCEPT
                        ![l].ctx_head[walk(1)].ctx.calls =
                           @ \cup {<<"SSL_set_SSL_CTX", server_name>>}]
  /\ pc' = "exit"
  /\ UNCHANGED <<cur_input, stack, res, services, anonymise, diag, nstmt, done,
                 fs, seen>>

\* The verify mode of each ClientCert value.
ClientCertVerify(mode) ==
  CASE mode = 0 -> {"SSL_VERIFY_NONE"}
    [] mode = 1 -> {"SSL_VERIFY_PEER", "SSL_VERIFY_CLIENT_ONCE"}
    [] mode = 2 -> {"SSL_VERIFY_PEER", "SSL_VERIFY_FAIL_IF_NO_PEER_CERT"}
    [] mode = 3 -> {"SSL_VERIFY_PEER", "SSL_VERIFY_CLIENT_ONCE", "verify_OK"}

https_parse_client_cert ==
  /\ Calling("https_parse_client_cert")
  /\ LET lst == [Top.obj EXCEPT !.has_other = 1]
     IN IF SLIST_EMPTY(lst.ctx_head)
        THEN Fail(<<Msg("ClientCert may only be used after Cert", "")>>)
        ELSE \E d \in DrawsAt(cur_input, NumberArgs({"0", "2", "4"})) :
               LET t == gettkn_expect(cur_input, d, T_NUMBER)
                   m == assign_int_range(t.tok, 0, 3)
               IN IF m.rc # PARSER_OK
                  THEN Act(t, lst, PARSER_FAIL, m.msgs)
                  ELSE IF m.n = 0
                  THEN Act(t, [lst EXCEPT !.clnt_check = 0,
                                          !.ctx_head = SSL_CTX_each(@,
                                             <<"set_verify", ClientCertVerify(0)>>)],
                           PARSER_OK, <<>>)
                  ELSE \E e \in DrawsAt(t.inp, NumberArgs({"1"})) :
                         LET u == gettkn_expect(t.inp, e, T_NUMBER)
                             depth == assign_int(u.tok)
                             both == [u EXCEPT !.got = t.got \o @]
                         IN IF depth.rc # PARSER_OK
                            THEN Act(both, [lst EXCEPT !.clnt_check = m.n],
                                     PARSER_FAIL, depth.msgs)
                            ELSE Act(both,
                                     [lst EXCEPT
                                        !.clnt_check = m.n,
                                        !.ctx_head = SSL_CTX_each(
                                           SSL_CTX_each(@,
                                             <<"set_verify", ClientCertVerify(m.n)>>),
                                           <<"set_verify_depth", depth.n>>)],
                                     PARSER_OK, <<>>)

https_parse_disable ==
  /\ Calling("https_parse_disable")
  /\ \E d \in DrawsAt(cur_input, ProtoArgs) :
       LET t == gettkn_expect(cur_input, d, T_IDENT)
           r == set_proto_opt(t.tok)
       IN Act(t, [Top.obj EXCEPT !.ssl_op_enable = @ \cup r.n], r.rc, r.msgs)

https_parse_ciphers ==
  /\ Calling("https_parse_ciphers")
  /\ LET lst == [Top.obj EXCEPT !.has_other = 1]
     IN IF SLIST_EMPTY(lst.ctx_head)
        THEN Fail(<<Msg("Ciphers may only be used after Cert", "")>>)
        ELSE \E d \in DrawsAt(cur_input, StringArgs({"HIGH"})) :
               LET t == gettkn_expect(cur_input, d, T_STRING)
               IN IF t.tok = NullTok
                  THEN Act(t, lst, PARSER_FAIL, <<>>)
                  ELSE Act(t, [lst EXCEPT !.ctx_head = SSL_CTX_each(@,
                                             <<"set_cipher_list", t.tok.str>>)],
                           PARSER_OK, <<>>)

https_parse_honor_cipher_order ==
  /\ Calling("https_parse_honor_cipher_order")
  /\ \E d \in DrawsAt(cur_input,
         {Tok(T_IDENT, "yes"), Tok(T_NUMBER, "0"), Tok(T_IDENT, "Yes"), Tok(T_STRING, "yes")}) :
       LET t == gettkn_expect_mask(cur_input, d, T_UNQ)
           bv == assign_bool(t.tok)
           op == {"SSL_OP_CIPHER_SERVER_PREFERENCE"}
           lst == Top.obj
       IN IF bv.rc # PARSER_OK
          THEN Act(t, lst, PARSER_FAIL, bv.msgs)
          ELSE IF bv.n # 0
          THEN Act(t, [lst EXCEPT !.ssl_op_enable = @ \cup op,
                                  !.ssl_op_disable = @ \ op], PARSER_OK, <<>>)
          ELSE Act(t, [lst EXCEPT !.ssl_op_disable = @ \cup op,
                                  !.ssl_op_enable = @ \ op], PARSER_OK, <<>>)

https_parse_allow_client_renegotiation ==
  /\ Calling("https_parse_allow_client_renegotiation")
  /\ \E d \in DrawsAt(cur_input, NumberArgs({"1", "2", "3"})) :
       LET t == gettkn_expect(cur_input, d, T_NUMBER)
           r == assign_int_range(t.tok, 0, 2)
           op == {"SSL_OP_ALLOW_UNSAFE_LEGACY_RENEGOTIATION"}
           lst == Top.obj
       IN IF r.rc # PARSER_OK
          THEN Act(t, lst, PARSER_FAIL, r.msgs)
          ELSE IF r.n = 2
          THEN Act(t, [lst EXCEPT !.allow_client_reneg = r.n,
                                  !.ssl_op_enable = @ \cup op,
                                  !.ssl_op_disable = @ \ op], PARSER_OK, <<>>)
          ELSE Act(t, [lst EXCEPT !.allow_client_reneg = r.n,
                                  !.ssl_op_disable = @ \cup op,
                                  !.ssl_op_enable = @ \ op], PARSER_OK, <<>>)

\* CAlist, VerifyList and CRLlist: a file is loaded and used in every context.
LoadsInEach(lst, error, call) ==
  \E d \in DrawsAt(cur_input, StringArgs({"ca.pem", "none.pem"})) :
    LET t == gettkn_expect(cur_input, d, T_STRING)
    IN IF t.tok = NullTok
       THEN Act(t, lst, PARSER_FAIL, <<>>)
       ELSE IF t.tok.str \notin PemFiles
       THEN Act(t, lst, PARSER_FAIL, <<Msg(error, "")>>)
       ELSE Act(t, [lst EXCEPT !.ctx_head = SSL_CTX_each(@, <<call, t.tok.str>>)],
                PARSER_OK, <<>>)

https_parse_calist ==
  /\ Calling("https_parse_calist")
  /\ IF SLIST_EMPTY(Top.obj.ctx_head)
     THEN Fail(<<Msg("CAList may only be used after Cert", "")>>)
     ELSE LoadsInEach([Top.obj EXCEPT !.has_other = 1],
                      "SSL_load_client_CA_file", "set_client_CA_list")

https_parse_verifylist ==
  /\ Calling("https_parse_verifylist")
  /\ IF SLIST_EMPTY(Top.obj.ctx_head)
     THEN Fail(<<Msg("VerifyList may only be used after Cert", "")>>)
     ELSE LoadsInEach([Top.obj EXCEPT !.has_other = 1],
                      "SSL_CTX_load_verify_locations", "load_verify_locations")

https_parse_crlist ==
  /\ Calling("https_parse_crlist")
  /\ IF SLIST_EMPTY(Top.obj.ctx_head)
     THEN Fail(<<Msg("CRlist may only be used after Cert", "")>>)
     ELSE LoadsInEach([Top.obj EXCEPT !.has_other = 1],
                      "X509_load_crl_file failed", "load_crl_file")

https_parse_nohttps11 ==
  /\ Calling("https_parse_nohttps11")
  /\ \E d \in DrawsAt(cur_input, NumberArgs({"2", "3"})) :
       LET t == gettkn_expect(cur_input, d, T_NUMBER)
           r == assign_int_range(t.tok, 0, 2)
       IN IF r.rc # PARSER_OK
          THEN Act(t, Top.obj, PARSER_FAIL, r.msgs)
          ELSE Act(t, [Top.obj EXCEPT !.noHTTPS11 = r.n], PARSER_OK, <<>>)

\* parse_acme.  /var/acme is a directory, main.cfg is a file.
parse_acme ==
  /\ Calling("parse_acme")
  /\ \E d \in DrawsAt(cur_input,
              StringArgs({"/var/acme", "/var/acme/", "main.cfg", "/none"})) :
       LET t == gettkn_expect(cur_input, d, T_STRING)
           dir == t.tok.str
           S_ISDIR == dir \in {"/var/acme", "/var/acme/"}
           len == IF SubSeq(dir, Len(dir), Len(dir)) = "/"
                  THEN Len(dir) - 1 ELSE Len(dir)
           be == [be_type |-> "BE_ACME", priority |-> 1, alive |-> 1, disabled |-> 0,
                  url |-> SubSeq(dir, 1, len) \o "/$1"]
           svc == [name |-> "", sess_type |-> "SESS_NONE", sess_ttl |-> 0,
                   sess_start |-> [pat |-> "", flags |-> {}],
                   sess_pat |-> [pat |-> "", flags |-> {}],
                   backends |-> <<be>>, emergency |-> NULL,
                   tot_pri |-> 1, abs_pri |-> 1, disabled |-> 0,
                   url |-> <<>>,
                   svc_url |-> <<[pat |-> "^/\\.well-known/acme-challenge/(.+)",
                                  flags |-> {"REG_EXTENDED"}]>>,
                   ignore_case |-> 0]
       IN IF t.tok = NullTok
          THEN Act(t, Top.obj, PARSER_FAIL, <<>>)
          ELSE IF ~(S_ISDIR \/ stat(dir).ok)
          THEN Act(t, Top.obj, PARSER_FAIL, <<Msg("can't stat", "")>>)
          ELSE IF ~S_ISDIR
          THEN Act(t, Top.obj, PARSER_FAIL, <<Msg("is not a directory", "")>>)
          ELSE Act(t, [Top.obj EXCEPT ![Top.ent.off] = SLIST_PUSH(@, svc)],
                   PARSER_OK, <<>>)

\* Listeners with their addresses and TLS statements.
LstVocab ==
  {"ListenHTTP", "ListenHTTPS", "Address", "Port", "SocketFrom", "Cert",
   "ClientCert", "Disable", "Ciphers", "SSLHonorCipherOrder",
   "SSLAllowClientRenegotiation", "CAlist", "VerifyList", "CRLlist",
   "NoHTTPS11", "ACME", "End"}
LstOther == {Tok(NL, "")}
LstTerm == {Tok(NL, ""), Tok(T_LITERAL, "-")}

MaxLst == 5

NextLst ==
  \/ parse_config_file
  \/ parser_loop(LstVocab, LstOther, MaxLst)
  \/ parser_loop_switch(LstTerm)
  \/ parse_end
  \/ parse_listen_http
  \/ parse_listen_http_ret
  \/ parse_listen_https
  \/ parse_listen_https_ret
  \/ assign_address
  \/ assign_port
  \/ listener_parse_socket_from
  \/ https_parse_cert
  \/ https_parse_client_cert
  \/ https_parse_disable
  \/ https_parse_ciphers
  \/ https_parse_honor_cipher_order
  \/ https_parse_allow_client_renegotiation
  \/ https_parse_calist
  \/ https_parse_verifylist
  \/ https_parse_crlist
  \/ https_parse_nohttps11
  \/ parse_acme
  \/ parse_config_file_ret
  \/ SNI_server_name

SpecLst == Init /\ [][NextLst]_vars

(***************************************************************************)
(* Properties of listeners.                                                *)
(***************************************************************************)
\* The statements that succeeded so far in the innermost section.
Done == done[Len(done)]

HasAddress(addr) == "AI_NUMERICHOST" \in addr.ai_flags
HasPort(addr) == "AI_NUMERICSERV" \in addr.ai_flags
Complete(addr) ==
  HasAddress(addr) /\ (addr.ai_family \in {"AF_INET", "AF_INET6"} => HasPort(addr))

\* A listener section has ended and its handler is about to check it.
ListenerEnds == pc = "sret" /\ Top.sect \in {"http", "https"} /\ res = PARSER_OK

\* C5: every listener of the listeners list has the has-address flag and,
\* when its family is INET or INET6, the has-port flag; a listener section
\* that ends without them fails with a missing Address or missing Port
\* diagnostic and adds no listener.
C5_Listed == \A i \in 1..Len(listeners) : Complete(listeners[i].addr)

C5_Step ==
  (ListenerEnds /\ ~Complete(Top.obj.addr)) =>
     /\ pc' = "ret" /\ res' = PARSER_FAIL
     /\ listeners' = listeners
     /\ Len(diag') = 1
     /\ diag'[1].text = IF HasAddress(Top.obj.addr)
                        THEN "missing Port declaration"
                        ELSE "missing Address declaration"

C5_ListenersHaveAddress == []C5_Listed /\ [][C5_Step]_vars

\* A ListenHTTPS section with Address, Port and Cert was accepted.
C5_Witness ==
  /\ Len(listeners) = 1
  /\ listeners[1].sock = -1
  /\ listeners[1].addr.ai_family = "AF_INET"
  /\ listeners[1].addr.ai_addr.port = 80
  /\ listeners[1].ctx_head # <<>>

AfterCert == {"ClientCert", "Ciphers", "CAlist", "VerifyList", "CRLlist"}

\* A statement of a ListenHTTPS section is being handled.
InHttps(names) == pc = "call" /\ Top.sect = "https" /\ Top.ent.name \in names

C7_Accepted ==
  (ListenerEnds /\ Top.sect = "https" /\ res' = PARSER_OK) =>
     /\ "Cert" \in Done
     /\ listeners' = Append(listeners, listeners'[Len(listeners')])
     /\ listeners'[Len(listeners')].ctx_head # <<>>

C7_Order ==
  /\ (InHttps(AfterCert) /\ res' = PARSER_OK) => "Cert" \in Done
  /\ (InHttps({"Cert"}) /\ Done \cap AfterCert # {}) => res' = PARSER_FAIL

\* C7 as stated: every accepted ListenHTTPS section has a TLS context; each
\* of ClientCert, Ciphers, CAlist, VerifyList and CRLlist succeeds only
\* after a Cert statement of the same listener, and no Cert statement is
\* accepted after any of the five; a section with no Cert fails at End with
\* "Cert statement is missing".
C7_NoCert ==
  (ListenerEnds /\ Top.sect = "https" /\ "Cert" \notin Done) =>
     /\ res' = PARSER_FAIL
     /\ diag' = <<Msg("Cert statement is missing", "ListenHTTPS")>>

C7_CertFirst == [][C7_Accepted /\ C7_Order /\ C7_NoCert]_vars

\* C7, amended: as above, but a section with no Cert fails at End with
\* "Cert statement is missing" when its address is complete, and with the
\* diagnostic of the address check otherwise.
C7_NoCertAmended ==
  (ListenerEnds /\ Top.sect = "https" /\ "Cert" \notin Done) =>
     /\ res' = PARSER_FAIL
     /\ listeners' = listeners
     /\ IF Complete(Top.obj.addr)
        THEN diag' = <<Msg("Cert statement is missing", "ListenHTTPS")>>
        ELSE diag'[1].text \in {"missing Address declaration",
                                "missing Port declaration"}

C7_CertFirstAmended == [][C7_Accepted /\ C7_Order /\ C7_NoCertAmended]_vars

\* A ListenHTTPS section with a Cert and then a Ciphers statement was
\* accepted.
C7_Witness ==
  /\ Len(listeners) = 1
  /\ Len(listeners[1].ctx_head) = 1
  /\ listeners[1].has_other = 1
  /\ <<"set_cipher_list", "HIGH">> \in listeners[1].ctx_head[1].ctx.calls

\* C8: in a ListenHTTPS section a Cert statement that follows any other
\* TLS-specific statement is rejected with PARSER_FAIL.
C8_Step ==
  (/\ InHttps({"Cert"})
   /\ Done \cap {"ClientCert", "Disable", "Ciphers", "SSLHonorCipherOrder",
                  "SSLAllowClientRenegotiation", "CAlist", "VerifyList",
                  "CRLlist", "NoHTTPS11"} # {})
  => res' = PARSER_FAIL

C8_CertBeforeAllOthers == [][C8_Step]_vars

\* The call each statement that follows Cert makes on a context.
C38_Call(kw) ==
  CASE kw = "Ciphers" -> "set_cipher_list"
    [] kw = "ClientCert" -> "set_verify"
    [] kw = "CAlist" -> "set_client_CA_list"
    [] kw = "VerifyList" -> "load_verify_locations"
    [] kw = "CRLlist" -> "load_crl_file"

C38_Names(head) == [i \in 1..Len(head) |-> head[i].server_name]

\* The statement kw was applied to every context of the list.
C38_Applied(head, kw) ==
  \A i \in 1..Len(head) : \E c \in head[i].ctx.calls : c[1] = C38_Call(kw)

\* A step of a ListenHTTPS section: one of the five statements that succeeds
\* is applied to every context and adds none, a Cert that succeeds adds one
\* context at the end of the list, and the End that is accepted lists the
\* listener with the contexts of the section and the calls made on them.
C38_Step ==
  /\ (InHttps(AfterCert) /\ res' = PARSER_OK) =>
       /\ C38_Applied(stack'[Len(stack)].obj.ctx_head, Top.ent.name)
       /\ C38_Names(stack'[Len(stack)].obj.ctx_head) = C38_Names(Top.obj.ctx_head)
  /\ (InHttps({"Cert"}) /\ res' = PARSER_OK) =>
       /\ Done \cap AfterCert = {}
       /\ \E pc_ \in {stack'[Len(stack)].obj.ctx_head[Len(Top.obj.ctx_head) + 1]} :
            /\ stack'[Len(stack)].obj.ctx_head = Append(Top.obj.ctx_head, pc_)
            /\ pc_.ctx.calls = {}
  /\ (ListenerEnds /\ Top.sect = "https" /\ res' = PARSER_OK) =>
       LET h == listeners'[Len(listeners')].ctx_head
       IN /\ C38_Names(h) = C38_Names(Top.obj.ctx_head)
          /\ \A i \in 1..Len(h) : Top.obj.ctx_head[i].ctx.calls \subseteq h[i].ctx.calls
          /\ \A kw \in Done \cap AfterCert : C38_Applied(h, kw)

\* C38: in a ListenHTTPS section each Ciphers, ClientCert, CAlist, VerifyList
\* and CRLlist statement that succeeded has been applied to every TLS context
\* of the listener, the contexts are in the order of the Cert statements, and
\* in a listener that is accepted every context has the listener for its
\* app-data and the first context alone has the SNI callback.
C38_EveryContext ==
  /\ []((pc \in {"loop", "call"} /\ Top.sect = "https") =>
          \A kw \in Done \cap AfterCert : C38_Applied(Top.obj.ctx_head, kw))
  /\ [](\A l \in 1..Len(listeners) : \A i \in 1..Len(listeners[l].ctx_head) :
          LET calls == listeners[l].ctx_head[i].ctx.calls
          IN /\ <<"set_app_data", "lst">> \in calls
             /\ <<"servername_callback", "SNI_server_name">> \in calls <=> i = 1)
  /\ [][C38_Step]_vars

\* A listener with two contexts in the order of its Cert statements.
C38_Witness ==
  /\ Len(listeners) = 1
  /\ C38_Names(listeners[1].ctx_head) = <<"a.example.org", "">>

\* Ciphers was applied to the two contexts of an open section.
C38_WitnessOpen ==
  /\ pc = "loop" /\ Top.sect = "https"
  /\ "Ciphers" \in Done
  /\ Len(Top.obj.ctx_head) = 2

\* A name in lower case.
C37_Lower(name) ==
  LET up == "ABCDEFGHIJKLMNOPQRSTUVWXYZ"
      lo == "abcdefghijklmnopqrstuvwxyz"
      low(c) == IF \E k \in 1..26 : SubSeq(up, k, k) = c
                THEN LET k == CHOOSE k \in 1..26 : SubSeq(up, k, k) = c
                     IN SubSeq(lo, k, k)
                ELSE c
      RECURSIVE f(_)
      f(i) == IF i > Len(name) THEN "" ELSE low(SubSeq(name, i, i)) \o f(i + 1)
  IN f(1)

\* A name matches a pattern that is a name or a star followed by the end of
\* a name.
C36_Glob(pattern, name) ==
  \/ pattern = name
  \/ /\ Len(pattern) >= 1 /\ SubSeq(pattern, 1, 1) = "*"
     /\ Len(name) >= Len(pattern) - 1
     /\ SubSeq(name, Len(name) - Len(pattern) + 2, Len(name))
          = SubSeq(pattern, 2, Len(pattern))

\* The first context of the list whose CN or one of whose subjectAltNames
\* the name matches, and the first context when there is none.
C36_First(head, name) ==
  LET M == {i \in 1..Len(head) :
              \/ C36_Glob(head[i].server_name, name)
              \/ \E j \in 1..Len(head[i].subjectAltNames) :
                   C36_Glob(head[i].subjectAltNames[j], name)}
  IN IF M = {} THEN 1 ELSE CHOOSE i \in M : \A j \in M : i <= j

\* The step binds the connection that asks for name to context i of
\* listener l.
C36_Binds(l, i, name) ==
  listeners' = [listeners EXCEPT
                  ![l].ctx_head[i].ctx.calls = @ \cup {<<"SSL_set_SSL_CTX", name>>}]

\* The callback has run on a ClientHello that holds a server name.
C36_Called == pc = "done" /\ pc' = "exit" /\ result' = "SSL_TLSEXT_ERR_OK"

C36_Step ==
  C36_Called =>
    /\ \E l \in 1..Len(listeners) : \E i \in 1..Len(listeners[l].ctx_head) :
         \E name \in ServerNames : C36_Binds(l, i, name)
    /\ \A l \in 1..Len(listeners) : \A i \in 1..Len(listeners[l].ctx_head) :
         \A name \in {n \in ServerNames : C37_Lower(n) = n} :
           C36_Binds(l, i, name) => i = C36_First(listeners[l].ctx_head, name)

\* C36: the SNI callback binds the connection to the first context, in the
\* order of the Cert statements, whose CN or one of whose subjectAltNames the
\* server name matches, and to the first context of the list when no context
\* matches (server names in lower case).
C36_FirstMatch == [][C36_Step]_vars

\* www.example.net was bound to the second context of a listener, whose
\* subjectAltName *.example.net it matches.
C36_Witness ==
  /\ pc = "exit" /\ result = "SSL_TLSEXT_ERR_OK"
  /\ Len(listeners) = 1
  /\ C38_Names(listeners[1].ctx_head) = <<"", "a.example.org">>
  /\ <<"SSL_set_SSL_CTX", "www.example.net">> \in listeners[1].ctx_head[2].ctx.calls

C37_Step ==
  C36_Called =>
    \A l \in 1..Len(listeners) : \A i \in 1..Len(listeners[l].ctx_head) :
      \A name \in ServerNames :
        C36_Binds(l, i, name) => i = C36_First(listeners[l].ctx_head, C37_Lower(name))

\* C37: a server name that differs from the CN or from a subjectAltName of a
\* context in the case of its letters only selects the context that the
\* name in the case of the certificate selects.
C37_CaseInsensitive == [][C37_Step]_vars

(***************************************************************************)
(* TLS statements of a backend.                                            *)
(***************************************************************************)
backend_parse_https ==
  /\ Calling("backend_parse_https")
  /\ Act(NoRead,
         [Top.obj EXCEPT !.ctx =
            <<[calls |-> {<<"set_verify", {"SSL_VERIFY_NONE"}>>,
                          <<"set_options", {"SSL_OP_ALL", "SSL_OP_NO_COMPRESSION"}>>,
                          <<"clear_options", {"SSL_OP_ALLOW_UNSAFE_LEGACY_RENEGOTIATION",
                                              "SSL_OP_LEGACY_SERVER_CONNECT"}>>}]>>],
         PARSER_OK, <<>>)

\* A call made on the context a pointer leads to.
SSL_CTX_call(ctx, call) == <<[ctx[1] EXCEPT !.calls = @ \cup {call}]>>

backend_parse_cert ==
  /\ Calling("backend_parse_cert")
  /\ LET be == Top.obj
     IN IF be.ctx = NULL
        THEN Fail(<<Msg("HTTPS must be used before this statement", "")>>)
        ELSE \E d \in DrawsAt(cur_input, StringArgs({"a.pem", "none.pem"})) :
               LET t == gettkn_expect(cur_input, d, T_STRING)
               IN IF t.tok = NullTok
                  THEN Act(t, be, PARSER_FAIL, <<>>)
                  ELSE IF t.tok.str \notin PemFiles
                  THEN Act(t, be, PARSER_FAIL,
                           <<Msg("SSL_CTX_use_certificate_chain_file", "")>>)
                  ELSE Act(t, [be EXCEPT !.ctx = SSL_CTX_call(@,
                                  <<"use_certificate_chain_file", t.tok.str>>)],
                           PARSER_OK, <<>>)

backend_assign_ciphers ==
  /\ Calling("backend_assign_ciphers")
  /\ LET be == Top.obj
     IN IF be.ctx = NULL
        THEN Fail(<<Msg("HTTPS must be used before this statement", "")>>)
        ELSE \E d \in DrawsAt(cur_input, StringArgs({"HIGH"})) :
               LET t == gettkn_expect(cur_input, d, T_STRING)
               IN IF t.tok = NullTok
                  THEN Act(t, be, PARSER_FAIL, <<>>)
                  ELSE Act(t, [be EXCEPT !.ctx = SSL_CTX_call(@,
                                  <<"set_cipher_list", t.tok.str>>)],
                           PARSER_OK, <<>>)

\* The argument parser_loop hands to a handler, (char*) data + ent->off: a
\* pointer to the field off of the section's object.
CallData == <<Top.sect, Top.ent.off>>

\* disable_proto takes its argument for the context itself.  The argument
\* points into the backend, so that SSL_CTX_set_options works on memory that
\* is no context: the call either returns or stops the process.
disable_proto ==
  /\ Calling("disable_proto")
  /\ LET ctx == CallData
     IN IF ctx = NULL
        THEN Fail(<<Msg("HTTPS must be used before this statement", "")>>)
        ELSE \E d \in DrawsAt(cur_input, ProtoArgs), returns \in BOOLEAN :
               LET t == gettkn_expect(cur_input, d, T_IDENT)
                   r == set_proto_opt(t.tok)
               IN IF r.rc # PARSER_OK \/ returns
                  THEN Act(t, Top.obj, r.rc, r.msgs)
                  ELSE /\ cur_input' = t.inp
                       /\ seen' = Saw(t.got)
                       /\ pc' = "done"
                       /\ result' = "undefined"
                       /\ diag' = <<>>
                       /\ UNCHANGED <<stack, res, listeners, services, anonymise,
                                      nstmt, done, fs>>

\* Services with backends, and the addresses of listeners and backends.
BeVocab ==
  {"ListenHTTP", "Service", "Backend", "Emergency", "Address", "Port",
   "SocketFrom", "HTTPS", "Cert", "Ciphers", "Disable", "End"}

MaxBe == 6

NextBe ==
  \/ parse_config_file
  \/ parser_loop(BeVocab, LstOther, MaxBe)
  \/ parser_loop_switch(LstTerm)
  \/ parse_end
  \/ parse_listen_http
  \/ parse_listen_http_ret
  \/ listener_parse_socket_from
  \/ parse_service
  \/ parse_service_ret
  \/ parse_backend
  \/ parse_emergency
  \/ parse_backend_ret
  \/ assign_address
  \/ assign_port
  \/ backend_parse_https
  \/ backend_parse_cert
  \/ backend_assign_ciphers
  \/ disable_proto
  \/ parse_config_file_ret

SpecBe == Init /\ [][NextBe]_vars

(***************************************************************************)
(* Properties of addresses and of backends.                                *)
(***************************************************************************)
\* A statement of a section with an address is being handled.
InScope(name) ==
  /\ pc = "call"
  /\ Top.sect \in {"http", "https", "backend", "emergency"}
  /\ Top.ent.name = name

\* C6: in a listener, a backend or an emergency backend, a Port statement
\* succeeds only if an Address statement succeeded earlier in the section,
\* no Port succeeded earlier and the family of the address is INET or INET6;
\* a second Address statement fails as a duplicate.
C6_Step ==
  /\ (InScope("Port") /\ res' = PARSER_OK) =>
        /\ "Address" \in Done
        /\ "Port" \notin Done
        /\ Top.obj.addr.ai_family \in {"AF_INET", "AF_INET6"}
  /\ (InScope("Address") /\ "Address" \in Done) =>
        /\ res' = PARSER_FAIL
        /\ diag' = <<Msg("Duplicate Address statement", "")>>
        /\ stack' = stack

C6_AddressBeforePort == [][C6_Step]_vars

\* In a backend a Port statement has succeeded after an Address statement.
C6_Witness ==
  /\ pc = "ret" /\ res = PARSER_OK
  /\ Top.sect = "backend"
  /\ Top.ent.name = "Port"
  /\ "Address" \in Done
  /\ Top.obj.addr.ai_addr = [host |-> "::1", port |-> 8080]

\* C9: in a Backend or Emergency section each of Cert, Ciphers and Disable
\* fails with "HTTPS must be used before this statement" unless an HTTPS
\* statement succeeded earlier in the section.
C9_Step ==
  (/\ pc = "call"
   /\ Top.sect \in {"backend", "emergency"}
   /\ Top.ent.name \in {"Cert", "Ciphers", "Disable"}
   /\ "HTTPS" \notin Done)
  => /\ res' = PARSER_FAIL
     /\ pc' = "ret"
     /\ diag' = <<Msg("HTTPS must be used before this statement", "")>>

C9_HttpsFirst == [][C9_Step]_vars

(***************************************************************************)
(* Sessions.                                                               *)
(***************************************************************************)
\* strtoul on a run of digits; -1 stands for a value above UINT_MAX.
strtoul(str) ==
  CASE str = "0" -> 0 [] str = "1" -> 1 [] str = "4" -> 4 [] str = "5" -> 5
    [] str = "300" -> 300 [] OTHER -> -1

\* assign_unsigned, which is also assign_timeout, on a field of the
\* section's object.
assign_unsigned ==
  /\ pc = "call"
  /\ Top.ent.parser \in {"assign_unsigned", "assign_timeout"}
  /\ \E d \in DrawsAt(cur_input,
         NumberArgs({"0", "300", "4294967296"})) :
       LET t == gettkn_expect(cur_input, d, T_NUMBER)
       IN IF t.tok = NullTok
          THEN Act(t, Top.obj, PARSER_FAIL, <<>>)
          ELSE IF strtoul(t.tok.str) < 0
          THEN Act(t, Top.obj, PARSER_FAIL, <<Msg("bad unsigned number", "")>>)
          ELSE Act(t, [Top.obj EXCEPT ![Top.ent.off] = strtoul(t.tok.str)],
                   PARSER_OK, <<>>)

\* assign_string on a field of the section's object.
assign_string ==
  /\ Calling("assign_string")
  /\ \E d \in DrawsAt(cur_input, StringArgs({"sid", "("}) \cup {Tok(T_IDENT, "sid")}) :
       LET t == gettkn_expect(cur_input, d, T_STRING)
       IN IF t.tok = NullTok
          THEN Act(t, Top.obj, PARSER_FAIL, <<>>)
          ELSE Act(t, [Top.obj EXCEPT ![Top.ent.off] = <<t.tok.str>>],
                   PARSER_OK, <<>>)

\* assign_log_facility on the facility of the defaults.  The token is used
\* without a test for NULL: when gettkn_expect_mask returns NULL, tok->str is
\* read through the null pointer, and the process stops or goes on with
\* whatever is read as the name.
assign_log_facility ==
  /\ Calling("assign_log_facility")
  /\ \E d \in DrawsAt(cur_input,
         {Tok(T_IDENT, "daemon"), Tok(T_IDENT, "nosuch"), Tok(T_LITERAL, "-"),
          Tok(T_STRING, "daemon"), Tok(NL, "")}) :
       LET t == gettkn_expect_mask(cur_input, d, T_UNQ)
           facility_table == [auth |-> "LOG_AUTH", authpriv |-> "LOG_AUTHPRIV",
                              cron |-> "LOG_CRON", daemon |-> "LOG_DAEMON",
                              ftp |-> "LOG_FTP", kern |-> "LOG_KERN",
                              lpr |-> "LOG_LPR", mail |-> "LOG_MAIL",
                              news |-> "LOG_NEWS", syslog |-> "LOG_SYSLOG",
                              user |-> "LOG_USER", uucp |-> "LOG_UUCP",
                              local0 |-> "LOG_LOCAL0", local1 |-> "LOG_LOCAL1",
                              local2 |-> "LOG_LOCAL2", local3 |-> "LOG_LOCAL3",
                              local4 |-> "LOG_LOCAL4", local5 |-> "LOG_LOCAL5",
                              local6 |-> "LOG_LOCAL6", local7 |-> "LOG_LOCAL7"]
           assign(str) ==
             IF str = "-"
             THEN Act(t, [Top.obj EXCEPT ![Top.ent.off] = -1], PARSER_OK, <<>>)
             ELSE IF str \notin DOMAIN facility_table
             THEN Act(t, Top.obj, PARSER_FAIL,
                      <<Msg("unknown log facility name", "")>>)
             ELSE Act(t, [Top.obj EXCEPT ![Top.ent.off] = facility_table[str]],
                      PARSER_OK, <<>>)
       IN IF t.tok # NullTok
          THEN assign(t.tok.str)
          ELSE \/ /\ cur_input' = t.inp
                  /\ seen' = Saw(t.got)
                  /\ pc' = "done"
                  /\ result' = "undefined"
                  /\ diag' = t.msgs
                  /\ UNCHANGED <<stack, res, listeners, services, anonymise,
                                 nstmt, done, fs>>
               \/ \E str \in {"-", "daemon", ""} : assign(str)

\* The session types by name; names are compared without their case.
session_kwtab(name) ==
  CASE name \in {"IP", "ip"} -> "SESS_IP"
    [] name \in {"COOKIE", "cookie", "Cookie"} -> "SESS_COOKIE"
    [] name \in {"URL", "url"} -> "SESS_URL"
    [] name \in {"PARM", "parm"} -> "SESS_PARM"
    [] name \in {"BASIC", "basic"} -> "SESS_BASIC"
    [] name \in {"HEADER", "header"} -> "SESS_HEADER"
    [] OTHER -> ""

session_type_parser ==
  /\ Calling("session_type_parser")
  /\ \E d \in DrawsAt(cur_input,
         {Tok(T_IDENT, x) : x \in {"IP", "cookie", "URL", "PARM", "BASIC", "HEADER", "NONE"}} \cup {Tok(T_STRING, "IP")}) :
       LET t == gettkn_expect(cur_input, d, T_IDENT)
       IN IF t.tok = NullTok
          THEN Act(t, Top.obj, PARSER_FAIL, <<>>)
          ELSE IF session_kwtab(t.tok.str) = ""
          THEN Act(t, Top.obj, PARSER_FAIL, <<Msg("Unknown Session type", "")>>)
          ELSE Act(t, [Top.obj EXCEPT !.type = session_kwtab(t.tok.str)],
                   PARSER_OK, <<>>)

parse_session ==
  /\ Calling("parse_session")
  /\ UNCHANGED <<cur_input, res, listeners, services, anonymise, result, nstmt,
                 fs, seen>>
  /\ Enter("session", [type |-> "SESS_NONE", id |-> NULL, ttl |-> 0])

sess_start_MutQuoted(sess) ==
  CASE sess.type = "SESS_COOKIE" -> "Cookie[^:]*:.*[ \t]" \o sess.id[1] \o "="
    [] sess.type = "SESS_URL" -> "[?&]" \o sess.id[1] \o "="
    [] sess.type = "SESS_PARM" -> ";"
    [] sess.type = "SESS_BASIC" -> "Authorization:[ \t]*Basic[ \t]*"
    [] sess.type = "SESS_HEADER" -> "(" \o sess.id[1] \o "):[ \t]*"
    [] OTHER -> ""

\* The expression that finds the session key, and the one that matches it.
sess_start(sess) ==
  CASE sess.type = "SESS_COOKIE" -> "Cookie[^:]*:.*[ \t]" \o sess.id[1] \o "="
    [] sess.type = "SESS_URL" -> "[?&]" \o sess.id[1] \o "="
    [] sess.type = "SESS_PARM" -> ";"
    [] sess.type = "SESS_BASIC" -> "Authorization:[ \t]*Basic[ \t]*"
    [] sess.type = "SESS_HEADER" -> sess.id[1] \o ":[ \t]*"
    [] OTHER -> ""

sess_pat(sess) ==
  CASE sess.type = "SESS_COOKIE" -> "([^;]*)"
    [] sess.type = "SESS_URL" -> "([^&;#]*)"
    [] sess.type = "SESS_PARM" -> "([^?]*)"
    [] sess.type \in {"SESS_BASIC", "SESS_HEADER"} -> "([^ \t]*)"
    [] OTHER -> ""

session_check_MutNoTtl(sess) ==
  IF sess.type = "SESS_NONE" THEN <<Msg("Session type not defined", "Session")>>
  ELSE IF sess.type \in {"SESS_COOKIE", "SESS_URL", "SESS_HEADER"} /\ sess.id = NULL
  THEN <<Msg("Session ID not defined", "")>>
  ELSE <<>>

\* The checks of parse_session after parser_loop: the diagnostic, none when
\* the session is complete.
session_check(sess) ==
  IF sess.type = "SESS_NONE" THEN <<Msg("Session type not defined", "Session")>>
  ELSE IF sess.ttl = 0 THEN <<Msg("Session TTL not defined", "Session")>>
  ELSE IF sess.type \in {"SESS_COOKIE", "SESS_URL", "SESS_HEADER"} /\ sess.id = NULL
  THEN <<Msg("Session ID not defined", "")>>
  ELSE <<>>

parse_session_ret ==
  /\ pc = "sret"
  /\ Top.sect = "session"
  /\ LET sess == Top.obj
         svc == Parent.obj
         chk == session_check(sess)
         flags == {"REG_ICASE", "REG_NEWLINE", "REG_EXTENDED"}
     IN IF res # PARSER_OK
        THEN Leave(PARSER_FAIL, svc) /\ diag' = diag
        ELSE IF chk # <<>>
        THEN Leave(PARSER_FAIL, svc) /\ diag' = chk
        ELSE IF sess.type = "SESS_IP"
        THEN /\ Leave(PARSER_OK, [svc EXCEPT !.sess_ttl = sess.ttl,
                                             !.sess_type = sess.type])
             /\ diag' = <<>>
        ELSE IF ~regcomp(sess_start(sess))
        THEN Leave(PARSER_FAIL, svc) /\ diag' = <<Msg("regcomp", "")>>
        ELSE /\ Leave(PARSER_OK, [svc EXCEPT !.sess_start = [pat |-> sess_start(sess),
                                                                 flags |-> flags],
                                             !.sess_pat = [pat |-> sess_pat(sess),
                                                           flags |-> flags],
                                             !.sess_ttl = sess.ttl,
                                             !.sess_type = sess.type])
             /\ diag' = <<>>
  /\ UNCHANGED <<cur_input, listeners, services, anonymise, result, nstmt, fs,
                 seen>>

\* Services with a Session section.
SessVocab == {"Service", "Session", "Type", "TTL", "ID", "End"}

MaxSess == 7

NextSess ==
  \/ parse_config_file
  \/ parser_loop(SessVocab, LstOther, MaxSess)
  \/ parser_loop_switch(LstTerm)
  \/ parse_end
  \/ parse_service
  \/ parse_service_ret
  \/ parse_session
  \/ parse_session_ret
  \/ session_type_parser
  \/ assign_unsigned
  \/ assign_string
  \/ parse_config_file_ret

SpecSess == Init /\ [][NextSess]_vars

\* A Session section has ended and parse_session is about to check it.
SessionEnds == pc = "sret" /\ Top.sect = "session" /\ res = PARSER_OK

Defined(sess) ==
  /\ sess.type # "SESS_NONE"
  /\ sess.ttl > 0
  /\ sess.type \in {"SESS_COOKIE", "SESS_URL", "SESS_HEADER"} => sess.id # <<>>

\* C10: every Session section that is accepted has a type other than NONE,
\* a TTL greater than 0 and, when the type is COOKIE, URL or HEADER, an
\* ID; a section without one of them fails and leaves sess_type and
\* sess_ttl of the service as they were.
C10_Step ==
  /\ (SessionEnds /\ res' = PARSER_OK) =>
        /\ Defined(Top.obj)
        /\ Top.obj.type \in {"SESS_IP", "SESS_COOKIE", "SESS_URL", "SESS_PARM",
                              "SESS_BASIC", "SESS_HEADER"}
        /\ stack'[Len(stack')].obj.sess_type = Top.obj.type
        /\ stack'[Len(stack')].obj.sess_ttl = Top.obj.ttl
  /\ (SessionEnds /\ ~Defined(Top.obj)) =>
        /\ res' = PARSER_FAIL
        /\ pc' = "ret"
        /\ stack'[Len(stack')].obj = Parent.obj

C10_Listed ==
  \A i \in 1..Len(services) :
    services[i].sess_type # "SESS_NONE" => services[i].sess_ttl > 0

C10_SessionDefined == []C10_Listed /\ [][C10_Step]_vars

\* A service with a COOKIE session was accepted.
C10_Witness ==
  /\ Len(services) = 1
  /\ services[1].sess_type = "SESS_COOKIE"
  /\ services[1].sess_ttl = 300
  /\ services[1].sess_start.pat = "Cookie[^:]*:.*[ \t]sid="

\* C11: for an accepted session of type COOKIE, URL or HEADER sess_start is
\* the anchor of the type with the ID of the section embedded as it was
\* written, and sess_pat is the expression of the type; PARM and BASIC have
\* their two fixed expressions; every expression is compiled with REG_ICASE.
C11_Step ==
  (SessionEnds /\ res' = PARSER_OK /\ Top.obj.type # "SESS_IP") =>
     LET sess == Top.obj
         svc == stack'[Len(stack')].obj
         tab == CASE sess.type = "SESS_COOKIE" ->
                       <<"Cookie[^:]*:.*[ \t]" \o sess.id[1] \o "=", "([^;]*)">>
                  [] sess.type = "SESS_URL" ->
                       <<"[?&]" \o sess.id[1] \o "=", "([^&;#]*)">>
                  [] sess.type = "SESS_HEADER" ->
                       <<sess.id[1] \o ":[ \t]*", "([^ \t]*)">>
                  [] sess.type = "SESS_PARM" -> <<";", "([^?]*)">>
                  [] sess.type = "SESS_BASIC" ->
                       <<"Authorization:[ \t]*Basic[ \t]*", "([^ \t]*)">>
     IN /\ svc.sess_start.pat = tab[1]
        /\ svc.sess_pat.pat = tab[2]
        /\ "REG_ICASE" \in svc.sess_start.flags \cap svc.sess_pat.flags

C11_SessionExpressions == [][C11_Step]_vars

\* A service with a HEADER session was accepted.
C11_Witness ==
  /\ Len(services) = 1
  /\ services[1].sess_type = "SESS_HEADER"
  /\ services[1].sess_start = [pat |-> "sid:[ \t]*",
                               flags |-> {"REG_ICASE", "REG_NEWLINE", "REG_EXTENDED"}]
  /\ services[1].sess_pat.pat = "([^ \t]*)"

(***************************************************************************)
(* More statements of backends and services.                               *)
(***************************************************************************)
backend_assign_priority ==
  /\ Calling("backend_assign_priority")
  /\ \E d \in DrawsAt(cur_input, NumberArgs({"0", "9", "10"})) :
       LET t == gettkn_expect(cur_input, d, T_NUMBER)
           r == assign_int_range(t.tok, 0, 9)
       IN IF r.rc # PARSER_OK
          THEN Act(t, Top.obj, PARSER_FAIL, r.msgs)
          ELSE Act(t, [Top.obj EXCEPT ![Top.ent.off] = r.n], PARSER_OK, <<>>)

\* backend_parse_haport.  The form with one argument copies be->addr, the
\* pointer ai_addr included: ha_addr.ai_addr is then [ref |-> "addr"], the
\* address stored for be->addr, and the port is written there.
backend_parse_haport ==
  /\ Calling("backend_parse_haport")
  /\ LET be == Top.obj
     IN IF ADDRINFO_HAS_ADDRESS(be.ha_addr)
        THEN Fail(<<Msg("Duplicate HAport statement", "")>>)
        ELSE \E d \in DrawsAt(cur_input,
                    {Tok(T_NUMBER, "8080"), Tok(T_NUMBER, "443"),
                     Tok(T_LITERAL, "::1"), Tok(T_STRING, "/tmp/sock"), Tok(NL, "")}) :
               LET t == gettkn_any(cur_input, d)
               IN IF t.tok = NullTok
                  THEN Act(t, be, PARSER_FAIL, <<>>)
                  ELSE \E e \in DrawsAt(t.inp, {Tok(NL, ""), Tok(T_NUMBER, "443"),
                                                Tok(T_STRING, "443")}) :
                    LET u == gettkn_any(t.inp, e)
                        both == [u EXCEPT !.got = t.got \o @]
                        back == [both EXCEPT !.inp = putback_tkn(u.inp)]
                        copy == [be.addr EXCEPT !.ai_addr = [ref |-> "addr"]]
                        p == assign_port_internal(be.addr, t.tok)
                        a == assign_address_internal(be.ha_addr, t.tok)
                        q == assign_port_internal(a.addr, u.tok)
                    IN IF u.tok = NullTok
                       THEN Act(both, be, PARSER_FAIL, <<>>)
                       ELSE IF u.tok.type = NL
                       THEN IF p.rc # PARSER_OK
                            THEN Act(back, [be EXCEPT !.ha_addr = copy],
                                     PARSER_FAIL, p.msgs)
                            ELSE Act(back,
                                     [be EXCEPT
                                        !.addr.ai_addr.port = p.addr.ai_addr.port,
                                        !.ha_addr = ADDRINFO_SET_ADDRESS(copy)],
                                     PARSER_OK, <<>>)
                       ELSE IF a.rc # PARSER_OK
                       THEN Act(both, [be EXCEPT !.ha_addr = a.addr],
                                PARSER_FAIL, a.msgs)
                       ELSE IF q.rc # PARSER_OK
                       THEN Act(both, [be EXCEPT !.ha_addr = q.addr],
                                PARSER_FAIL, q.msgs)
                       ELSE Act(both, [be EXCEPT !.ha_addr = ADDRINFO_SET_ADDRESS(q.addr)],
                                PARSER_OK, <<>>)

\* regexec (&LOCATION, url, ...): whether the URL has the form
\* scheme://host/path, and the offsets of the path in it.
LOCATION(url) ==
  CASE url = "http://a" -> [rc |-> 0, rm_so |-> 8, rm_eo |-> 8]
    [] url = "http://a/" -> [rc |-> 0, rm_so |-> 8, rm_eo |-> 9]
    [] url = "https://b/c" -> [rc |-> 0, rm_so |-> 9, rm_eo |-> 11]
    [] OTHER -> [rc |-> 1, rm_so |-> 0, rm_eo |-> 0]

\* atoi on a run of digits: the values it can return.  The result is not
\* defined when the number does not fit an int; it is then the number
\* reduced modulo 2^32 (4294967597 = 2^32 + 301) or the largest int.
atoi(str) ==
  CASE str = "301" -> {301} [] str = "302" -> {302} [] str = "307" -> {307}
    [] str = "303" -> {303}
    [] str = "4294967597" -> {301, 2147483647}

assign_redirect ==
  /\ Calling("assign_redirect")
  /\ \E d \in DrawsAt(cur_input,
              {Tok(T_NUMBER, "301"), Tok(T_NUMBER, "307"), Tok(T_NUMBER, "303"),
               Tok(T_NUMBER, "4294967597"), Tok(T_STRING, "http://a/"),
               Tok(T_STRING, "https://b/c"), Tok(T_STRING, "http://a"),
               Tok(T_STRING, "a"), Tok(NL, "")}) :
       LET t == gettkn_any(cur_input, d)
           svc == Top.obj
           redirect(u, code) ==
             LET m == LOCATION(u.tok.str)
                 redir_req == m.rm_eo - m.rm_so
                 be == [be_type |-> "BE_REDIRECT", redir_code |-> code, priority |-> 1,
                        alive |-> 1, disabled |-> 0, redir_req |-> redir_req,
                        url |-> IF redir_req = 1
                                THEN SubSeq(u.tok.str, 1, m.rm_so) ELSE u.tok.str]
             IN IF u.tok.type # T_STRING
                THEN Act(u, svc, PARSER_FAIL, <<Msg("expected, but found", "")>>)
                ELSE IF m.rc # 0
                THEN Act(u, svc, PARSER_FAIL, <<Msg("Redirect bad URL", "")>>)
                ELSE Act(u, [svc EXCEPT ![Top.ent.off] = SLIST_PUSH(@, be)],
                         PARSER_OK, <<>>)
       IN IF t.tok = NullTok
          THEN Act(t, svc, PARSER_FAIL, <<>>)
          ELSE IF t.tok.type = T_NUMBER
          THEN \E n \in atoi(t.tok.str) :
                 IF n \notin {301, 302, 307}
                 THEN Act(t, svc, PARSER_FAIL, <<Msg("invalid status code", "")>>)
                 ELSE \E e \in DrawsAt(t.inp, StringArgs({"http://a/"})) :
                        LET u == gettkn_any(t.inp, e)
                        IN IF u.tok = NullTok
                           THEN Act([u EXCEPT !.got = t.got \o @], svc, PARSER_FAIL, <<>>)
                           ELSE redirect([u EXCEPT !.got = t.got \o @], n)
          ELSE redirect(t, 302)

(***************************************************************************)
(* More statements of listeners and of the top level.                      *)
(***************************************************************************)
\* listener_parse_xhttp; the expression compiled into lst->verb is written
\* as its index in xhttp[].
listener_parse_xhttp ==
  /\ Calling("listener_parse_xhttp")
  /\ \E d \in DrawsAt(cur_input, NumberArgs({"4", "5", "4294967296"})) :
       LET t == gettkn_expect(cur_input, d, T_NUMBER)
           n == strtoul(t.tok.str)
       IN IF t.tok = NullTok
          THEN Act(t, Top.obj, PARSER_FAIL, <<>>)
          ELSE IF n < 0
          THEN Act(t, Top.obj, PARSER_FAIL, <<Msg("bad unsigned number", "")>>)
          ELSE IF n >= 5
          THEN Act(t, Top.obj, PARSER_FAIL, <<Msg("argument out of allowed range", "")>>)
          ELSE Act(t, [Top.obj EXCEPT ![Top.ent.off] =
                         [xhttp |-> n,
                          flags |-> {"REG_ICASE", "REG_NEWLINE", "REG_EXTENDED"}]],
                   PARSER_OK, <<>>)

parse_rewritelocation ==
  /\ Calling("parse_rewritelocation")
  /\ \E d \in DrawsAt(cur_input, NumberArgs({"0", "2", "3"})) :
       LET t == gettkn_expect(cur_input, d, T_NUMBER)
           r == assign_int_range(t.tok, 0, 2)
       IN IF r.rc # PARSER_OK
          THEN Act(t, Top.obj, PARSER_FAIL, r.msgs)
          ELSE Act(t, [Top.obj EXCEPT ![Top.ent.off] = r.n], PARSER_OK, <<>>)

\* assign_bool as the handler of a keyword, on a field of the section's
\* object.
assign_bool_field ==
  /\ Calling("assign_bool")
  /\ \E d \in DrawsAt(cur_input,
              {Tok(T_IDENT, x) : x \in {"yes", "true", "on", "no", "false", "off",
                                        "Yes", "ON", "maybe"}}
                \cup {Tok(T_NUMBER, x) : x \in {"0", "1", "2"}}
                \cup {Tok(T_LITERAL, "-1"), Tok(T_STRING, "yes"), Tok(NL, "")}) :
       LET t == gettkn_expect_mask(cur_input, d, T_UNQ)
           bv == assign_bool(t.tok)
       IN IF bv.rc # PARSER_OK
          THEN Act(t, Top.obj, PARSER_FAIL, bv.msgs)
          ELSE Act(t, [Top.obj EXCEPT ![Top.ent.off] = bv.n], PARSER_OK, <<>>)

\* config_parse after parse_config_file has returned; check_only is the
\* option -c.
config_parse ==
  /\ pc = "done"
  /\ result \in {"ok", "fail"}
  /\ \E check_only \in BOOLEAN :
       result' = IF result = "fail" THEN "exit 1"
                 ELSE IF check_only THEN "exit 0"
                 ELSE IF SLIST_EMPTY(listeners) THEN "exit 1"
                 ELSE "return"
  /\ pc' = "exit"
  /\ UNCHANGED <<cur_input, stack, res, listeners, services, anonymise, diag,
                 nstmt, done, fs, seen>>

\* Services with their backends, and the listeners they are served by.
MaxSvc == 5

NextSvc ==
  \/ parse_config_file
  \/ parser_loop({"ListenHTTP", "ACME", "xHTTP", "RewriteLocation", "Service",
                  "Disabled", "Redirect", "Backend", "Emergency",
                  "Priority", "HAport", "Address", "Port", "End"},
                 LstOther, MaxSvc)
  \/ parser_loop_switch(LstTerm)
  \/ parse_end
  \/ parse_listen_http
  \/ parse_listen_http_ret
  \/ parse_acme
  \/ listener_parse_xhttp
  \/ parse_rewritelocation
  \/ parse_service
  \/ parse_service_ret
  \/ assign_bool_field
  \/ assign_redirect
  \/ parse_backend
  \/ parse_emergency
  \/ parse_backend_ret
  \/ backend_assign_priority
  \/ backend_parse_haport
  \/ assign_address
  \/ assign_port
  \/ parse_config_file_ret
  \/ config_parse

SpecSvc == Init /\ [][NextSvc]_vars

\* assign_token_list: the URL statement of a service keeps the token.
assign_token_list ==
  /\ Calling("assign_token_list")
  /\ \E d \in DrawsAt(cur_input, StringArgs({"/a", "("}) \cup {Tok(T_IDENT, "a")}) :
       LET t == gettkn_expect(cur_input, d, T_STRING)
       IN IF t.tok = NullTok
          THEN Act(t, Top.obj, PARSER_FAIL, <<>>)
          ELSE Act(t, [Top.obj EXCEPT ![Top.ent.off] = SLIST_PUSH(@, t.tok)],
                   PARSER_OK, <<>>)

\* Files of IgnoreCase statements and of services with URL and IgnoreCase
\* statements.
MaxUrl == 5

NextUrl ==
  \/ parse_config_file
  \/ parser_loop({"IgnoreCase", "Service", "URL", "End"}, LstOther, MaxUrl)
  \/ parser_loop_switch(LstTerm)
  \/ parse_end
  \/ parse_service
  \/ parse_service_ret
  \/ assign_bool_field
  \/ assign_token_list
  \/ parse_config_file_ret

SpecUrl == Init /\ [][NextUrl]_vars

\* Files that hold the minimal HTTP configuration: one ListenHTTP with
\* Address and Port, one Service, one Backend with Address and Port.  The
\* addresses and the ports vary, and the last End is or is not followed by
\* a newline.
MaxCfg == 10

NextCfg ==
  \/ parse_config_file
  \/ parser_loop({}, {}, MaxCfg)
  \/ parser_loop_switch({})
  \/ parse_end
  \/ parse_listen_http
  \/ parse_listen_http_ret
  \/ parse_service
  \/ parse_service_ret
  \/ parse_backend
  \/ parse_backend_ret
  \/ assign_address
  \/ assign_port
  \/ parse_config_file_ret
  \/ config_parse

InitCfg ==
  /\ InitCommon
  /\ \E a \in {"127.0.0.1", "::1"}, p, q \in {"80", "8080"}, nl \in BOOLEAN :
       LET Line(kw, args) == <<Tok(T_IDENT, kw)>> \o args \o <<Tok(NL, "")>>
           text == Line("ListenHTTP", <<>>)
                     \o Line("Address", <<Tok(T_LITERAL, a)>>)
                     \o Line("Port", <<Tok(T_NUMBER, p)>>)
                     \o Line("Service", <<>>)
                     \o Line("Backend", <<>>)
                     \o Line("Address", <<Tok(T_LITERAL, "127.0.0.1")>>)
                     \o Line("Port", <<Tok(T_NUMBER, q)>>)
                     \o Line("End", <<>>)
                     \o Line("End", <<>>)
                     \o Line("End", <<>>)
       IN fs = [lazy |-> FALSE,
                content |-> Contents(IF nl THEN text
                                     ELSE SubSeq(text, 1, Len(text) - 1), <<>>)]

SpecCfg == InitCfg /\ [][NextCfg]_vars

\* Files that set the defaults of the top level around one service with one
\* backend and one listener: TimeOut, ConnTO and WSTimeOut before them, one
\* of the statements of the defaults after them, and LogFacility at the end,
\* with a name, with a quoted string or with nothing after it.
MaxTop == 16

NextTop ==
  \/ parse_config_file
  \/ parser_loop({}, {}, MaxTop)
  \/ parser_loop_switch({})
  \/ parse_end
  \/ parse_listen_http
  \/ parse_listen_http_ret
  \/ parse_service
  \/ parse_service_ret
  \/ parse_backend
  \/ parse_backend_ret
  \/ assign_address
  \/ assign_port
  \/ assign_unsigned
  \/ assign_log_facility
  \/ parse_config_file_ret

InitTop ==
  /\ InitCommon
  /\ \E v1, v2, v3 \in {"", "0", "300"},
        kw \in {"", "TimeOut", "ConnTO", "WSTimeOut", "Client"},
        w \in {Tok(T_NUMBER, "5"), Tok(T_STRING, "5")},
        lf \in {<<>>, <<Tok(T_IDENT, "LogFacility"), Tok(T_IDENT, "daemon")>>,
                <<Tok(T_IDENT, "LogFacility"), Tok(T_LITERAL, "-")>>,
                <<Tok(T_IDENT, "LogFacility"), Tok(T_IDENT, "nosuch")>>,
                <<Tok(T_IDENT, "LogFacility"), Tok(T_STRING, "daemon")>>,
                <<Tok(T_IDENT, "LogFacility")>>} :
       LET Line(k, args) == <<Tok(T_IDENT, k)>> \o args \o <<Tok(NL, "")>>
           Set(k, v) == IF v = "" THEN <<>> ELSE Line(k, <<Tok(T_NUMBER, v)>>)
           text == Set("TimeOut", v1) \o Set("ConnTO", v2) \o Set("WSTimeOut", v3)
                     \o Line("Service", <<>>)
                     \o Line("Backend", <<>>)
                     \o Line("Address", <<Tok(T_LITERAL, "127.0.0.1")>>)
                     \o Line("Port", <<Tok(T_NUMBER, "8080")>>)
                     \o Line("End", <<>>)
                     \o Line("End", <<>>)
                     \o Line("ListenHTTP", <<>>)
                     \o Line("Address", <<Tok(T_LITERAL, "::1")>>)
                     \o Line("Port", <<Tok(T_NUMBER, "80")>>)
                     \o Line("End", <<>>)
                     \o (IF kw = "" THEN <<>> ELSE Line(kw, <<w>>))
                     \o (IF lf = <<>> THEN <<>> ELSE lf \o <<Tok(NL, "")>>)
       IN fs = [lazy |-> FALSE, content |-> Contents(text, <<>>)]

SpecTop == InitTop /\ [][NextTop]_vars

(***************************************************************************)
(* Properties of services and backends.                                    *)
(***************************************************************************)
\* The services the parser has produced: those of the top level and those
\* of the listeners, listed or still open.
Produced ==
  {services[i] : i \in 1..Len(services)}
    \cup UNION {{listeners[i].services[j] : j \in 1..Len(listeners[i].services)} :
                 i \in 1..Len(listeners)}
    \cup UNION {{stack[i].obj.services[j] : j \in 1..Len(stack[i].obj.services)} :
                 i \in {k \in 1..Len(stack) : stack[k].sect \in {"http", "https"}}}

RECURSIVE Priorities(_)
Priorities(bes) == IF bes = <<>> THEN 0 ELSE Head(bes).priority + Priorities(Tail(bes))

\* C12: every service the parser has produced has tot_pri <= abs_pri, has a
\* backend that is not disabled and has a priority above 0 when tot_pri > 0,
\* and has for abs_pri the sum of the priorities of its backends, a Redirect
\* counting 1 and the Emergency backend not being one of them.
C12_Priorities ==
  \A svc \in Produced :
    /\ svc.tot_pri <= svc.abs_pri
    /\ svc.tot_pri > 0 =>
         \E i \in 1..Len(svc.backends) :
           svc.backends[i].disabled = 0 /\ svc.backends[i].priority > 0
    /\ svc.abs_pri = Priorities(svc.backends)
    /\ \A i \in 1..Len(svc.backends) :
         svc.backends[i].be_type = "BE_REDIRECT" => svc.backends[i].priority = 1

\* A service with one Backend of the default priority was accepted.
C12_Witness ==
  /\ Len(services) = 1
  /\ Len(services[1].backends) = 1
  /\ services[1].backends[1].be_type = "BE_BACKEND"
  /\ services[1].backends[1].addr.ai_family = "AF_UNIX"
  /\ services[1].tot_pri = 5
  /\ services[1].abs_pri = 5

\* The listeners and the backends the parser holds: listed or still open.
ListenerObjs ==
  {listeners[i] : i \in 1..Len(listeners)}
    \cup {stack[i].obj : i \in {k \in 1..Len(stack) : stack[k].sect \in {"http", "https"}}}

BackendObjs ==
  LET svcs == Produced \cup {stack[i].obj : i \in {k \in 1..Len(stack) : stack[k].sect = "service"}}
  IN UNION {{svc.backends[j] : j \in 1..Len(svc.backends)} : svc \in svcs}
       \cup UNION {{svc.emergency[j] : j \in 1..Len(svc.emergency)} : svc \in svcs}
       \cup {stack[i].obj : i \in {k \in 1..Len(stack) : stack[k].sect \in {"backend", "emergency"}}}

\* A step of a handler that stores through assign_int_range: the field it
\* names holds the number read when the step returns OK, and the object is
\* unchanged when it returns FAIL.
C13_Step ==
  (pc = "call" /\ Top.ent.parser \in {"parse_rewritelocation", "backend_assign_priority"}) =>
    LET lo == 0
        hi == IF Top.ent.parser = "parse_rewritelocation" THEN 2 ELSE 9
        new == stack'[Len(stack')].obj
    IN /\ Len(stack') = Len(stack)
       /\ res' = PARSER_OK => new[Top.ent.off] \in lo..hi
       /\ res' = PARSER_FAIL => new = Top.obj

\* C13: assign_int_range(min, max) returns OK with n exactly when
\* min <= n <= max and FAIL otherwise (a statement about the function, which
\* is evaluated in the initial state), a handler that fails leaves its object
\* unchanged, and in every reachable state rewrite-location is in 0..2,
\* client-cert mode in 0..3, NoHTTPS11 in 0..2, a backend priority in 0..9,
\* a redirect code in {301, 302, 307} and the xHTTP index in 0..4.
C13_Ranges ==
  /\ [](/\ pc = "start" =>
            \A str \in {"0", "1", "2", "3", "4", "5", "9", "10", "300"},
               min \in 0..1, max \in {2, 3, 9} :
            LET r == assign_int_range(Tok(T_NUMBER, str), min, max)
            IN /\ r.rc = PARSER_OK <=> (min <= strtol(str) /\ strtol(str) <= max)
               /\ r.rc = PARSER_OK => r.n = strtol(str)
               /\ r.rc # PARSER_OK => r.rc = PARSER_FAIL
        /\ \A lst \in ListenerObjs :
            /\ lst.rewr_loc \in 0..2
            /\ lst.clnt_check \in 0..3
            /\ lst.noHTTPS11 \in 0..2
            /\ lst.verb.xhttp \in 0..4
        /\ \A be \in BackendObjs :
            /\ be.be_type \in {"BE_BACKEND", "BE_ACME"} => be.priority \in 0..9
            /\ be.be_type = "BE_REDIRECT" => be.redir_code \in {301, 302, 307})
  /\ [][C13_Step]_vars

\* An open HTTP listener holds RewriteLocation 2 and xHTTP 4 after the two
\* statements were accepted.
C13_Witness ==
  /\ pc = "loop"
  /\ Top.sect = "http"
  /\ Top.obj.rewr_loc = 2
  /\ Top.obj.verb.xhttp = 4
  /\ {"RewriteLocation", "xHTTP"} \subseteq done[Len(stack)]

\* A step taken with the value FAIL returned by a handler or by the loop of
\* a section: the loop returns FAIL without reading on, a section returns
\* FAIL to its parent, whose object and the lists are as they were, and the
\* top level makes parse_config_file fail.
C14_Step ==
  (res = PARSER_FAIL /\ pc \in {"ret", "sret"}) =>
    /\ listeners' = listeners
    /\ services' = services
    /\ cur_input' = cur_input
    /\ nstmt' = nstmt
    /\ IF pc = "ret"
       THEN pc' = "sret" /\ res' = PARSER_FAIL /\ stack' = stack
       ELSE IF Top.sect = "top"
       THEN pc' = "done" /\ result' = "fail"
       ELSE /\ pc' = "ret" /\ res' = PARSER_FAIL
            /\ stack' = SubSeq(stack, 1, Len(stack) - 1)

\* C14: when a handler returns FAIL at any depth, the loop of every
\* enclosing section returns FAIL without processing another statement,
\* parse_config_file fails, and the object of each section open at the
\* failure is not appended to the list of its parent.
C14_FailUnwinds == [][C14_Step]_vars

\* Priority failed inside a Backend of a Service: the Backend section has
\* returned FAIL to the Service, which does not hold the backend.
C14_Witness ==
  /\ pc = "ret"
  /\ res = PARSER_FAIL
  /\ Len(stack) = 2
  /\ Top.sect = "service"
  /\ Top.ent.name = "Backend"
  /\ \E i \in 1..Len(diag) : diag[i].text = "value out of allowed range"
  /\ Top.obj.backends = <<>>

(***************************************************************************)
(* Properties of config_parse and of the loop of a section.                *)
(***************************************************************************)
\* C15: whenever the configuration file parses without error but defines no
\* listener, config_parse terminates the process with exit status 1.
C15_NoListenerExits1 ==
  [][(pc = "done" /\ result = "ok" /\ SLIST_EMPTY(listeners)) => result' = "exit 1"]_vars

\* The step of the loop after a handler returned OK: the token read is the
\* one the top input holds, or the end of file when every input is closed.
\* T_ERROR is no token: the lexer has reported the error and the loop fails.
C16_Step ==
  (pc = "ret" /\ res = PARSER_OK) =>
    IF cur_input' = <<>> \/ Head(cur_input').token.type = NL
    THEN pc' = "loop" /\ stack' = stack
    ELSE /\ pc' = "sret"
         /\ res' = PARSER_FAIL
         /\ Head(cur_input').token.type # T_ERROR =>
              diag' = <<Msg("unexpected", Head(cur_input').token.locus)>>

\* C16: after every statement whose handler returns OK, a nested section
\* closed by End included, the loop of the section accepts only a newline or
\* the end of file as the next token; any other token makes the section fail
\* with 'unexpected <token>'.
C16_NewlineAfterStatement ==
  /\ []((pc = "ret" /\ res = PARSER_OK) => cur_input # <<>>)
  /\ [][C16_Step]_vars

\* A listener section was closed by End and listed, and the token after End
\* is a literal: the top level fails with 'unexpected'.
C16_Witness ==
  /\ pc = "sret"
  /\ res = PARSER_FAIL
  /\ Len(stack) = 1
  /\ Len(listeners) = 1
  /\ cur_input # <<>>
  /\ Head(cur_input).token.type = T_LITERAL
  /\ diag = <<Msg("unexpected", Head(cur_input).token.locus)>>

(***************************************************************************)
(* Properties of HAport, Disable, the boolean values and Redirect.         *)
(***************************************************************************)
\* The address the HA probe of a backend connects to: ai_addr is followed
\* when it points to the address stored for be->addr.
HaProbe(be) ==
  LET sa == IF "ref" \in DOMAIN be.ha_addr.ai_addr
            THEN be.addr.ai_addr ELSE be.ha_addr.ai_addr
  IN [family |-> be.ha_addr.ai_family, host |-> sa.host, port |-> sa.port]

C17_Step ==
  LET be == Top.obj
      new == stack'[Len(stack')].obj
  IN /\ (Calling("backend_parse_haport") /\ ADDRINFO_HAS_ADDRESS(be.ha_addr)) =>
          /\ res' = PARSER_FAIL
          /\ diag' = <<Msg("Duplicate HAport statement", "")>>
          /\ new = be
     /\ (Calling("backend_parse_haport") /\ res' = PARSER_OK) =>
          /\ ADDRINFO_HAS_ADDRESS(new.ha_addr)
          /\ IF Head(cur_input').ready
             THEN /\ ADDRINFO_HAS_ADDRESS(be.addr)
                  /\ HaProbe(new).family = be.addr.ai_family
                  /\ HaProbe(new).host = be.addr.ai_addr.host
                  /\ HaProbe(new).port \in {8080, 443}
             ELSE /\ HaProbe(new).host = "::1"
                  /\ HaProbe(new).family = get_host("::1")
                  /\ HaProbe(new).port = getaddrinfo(Head(cur_input').token.str)
     /\ (/\ pc \in {"loop", "call", "ret"}
         /\ Top.sect \in {"backend", "emergency"}
         /\ ADDRINFO_HAS_ADDRESS(be.ha_addr)
         /\ Len(stack') = Len(stack)) => HaProbe(new) = HaProbe(be)

\* C17: after 'HAport <port>' in a backend that has an Address, the HA probe
\* address of the backend has the family and the host of the main address
\* and the port of the HAport statement, and keeps them in the rest of the
\* section; 'HAport <address> <port>' sets the HA address to the address and
\* the port given; a second HAport statement fails as a duplicate.
C17_HAport == [][C17_Step]_vars

\* The protocols from the oldest to the newest, and the bits that disable
\* the first i of them.
Protocols == <<"SSLv2", "SSLv3", "TLSv1", "TLSv1_1", "TLSv1_2">>
NoProto(i) == {"SSL_OP_NO_" \o Protocols[j] : j \in 1..i}

C18_Step ==
  (Calling("https_parse_disable") /\ res' = PARSER_OK) =>
    \E i \in 1..Len(Protocols) :
      /\ Head(cur_input').token = [type |-> T_IDENT, str |-> Protocols[i],
                                   locus |-> Head(cur_input').name]
      /\ stack'[Len(stack')].obj.ssl_op_enable = Top.obj.ssl_op_enable \cup NoProto(i)

\* C18: the mask of a protocol name holds the bit that disables the protocol
\* and the bit of every older one (SSLv2 < SSLv3 < TLSv1 < TLSv1_1 <
\* TLSv1_2); the Disable statements of a listener accumulate by OR; so the
\* set of disabled protocols is downward-closed after any sequence of them.
C18_DisableDownward ==
  /\ [](/\ \A i \in 1..Len(Protocols) :
            LET r == set_proto_opt(Tok(T_IDENT, Protocols[i]))
            IN r.rc = PARSER_OK /\ r.n = NoProto(i)
        /\ \A lst \in ListenerObjs :
            \A i \in 1..Len(Protocols) :
              "SSL_OP_NO_" \o Protocols[i] \in lst.ssl_op_enable =>
                NoProto(i) \subseteq lst.ssl_op_enable)
  /\ [][C18_Step]_vars

\* Disable TLSv1_1 and then Disable SSLv3 were accepted in an open HTTPS
\* listener, which holds the four bits.
C18_Witness ==
  /\ pc = "ret"
  /\ res = PARSER_OK
  /\ Top.sect = "https"
  /\ Top.ent.name = "Disable"
  /\ "Disable" \in done[Len(stack)]
  /\ Head(cur_input).token.str = "SSLv3"
  /\ Top.obj.ssl_op_enable \cap NoProto(5) = NoProto(4)

\* The token a handler that reads one token has read.
TokenRead == IF cur_input' = <<>> THEN Tok(EOF, "") ELSE Head(cur_input').token

\* What a step of assign_bool does for the tokens of the two lists.
C19_Accepts ==
  LET tk == TokenRead
      new == stack'[Len(stack')].obj
  IN /\ (T_MASK_ISSET(T_UNQ, tk.type) /\ tk.str \in {"1", "yes", "true", "on"}) =>
          res' = PARSER_OK /\ new = [Top.obj EXCEPT ![Top.ent.off] = 1]
     /\ (T_MASK_ISSET(T_UNQ, tk.type) /\ tk.str \in {"0", "no", "false", "off"}) =>
          res' = PARSER_OK /\ new = [Top.obj EXCEPT ![Top.ent.off] = 0]
     /\ res' = PARSER_OK =>
          /\ T_MASK_ISSET(T_UNQ, tk.type)
          /\ tk.str \in {"1", "yes", "true", "on", "0", "no", "false", "off"}
     /\ res' # PARSER_OK => res' = PARSER_FAIL /\ new = Top.obj

\* C19: the boolean value parser sets the target to 1 for exactly the
\* unquoted tokens 1, yes, true, on and to 0 for exactly 0, no, false, off,
\* compared case-sensitively; for every other token it returns FAIL, emits
\* 'not a boolean value' and a line listing the accepted literals, and
\* leaves the target unchanged.
C19_Bool ==
  [][Calling("assign_bool") =>
       /\ C19_Accepts
       /\ res' = PARSER_FAIL =>
            diag' = <<Msg("not a boolean value", ""), Msg("valid booleans are", "")>>]_vars

\* C19, amended: as above, the two lines being emitted for every other
\* unquoted token; a quoted string, a newline or the end of the file in the
\* place of the value fails with the diagnostic of the token reader
\* ('expected ..., but found ...', 'unexpected end of file') instead.
C19_BoolAmended ==
  [][Calling("assign_bool") =>
       /\ C19_Accepts
       /\ res' = PARSER_FAIL =>
            diag' = IF T_MASK_ISSET(T_UNQ, TokenRead.type)
                    THEN <<Msg("not a boolean value", ""), Msg("valid booleans are", "")>>
                    ELSE IF TokenRead.type = EOF
                    THEN <<Msg("unexpected end of file", "")>>
                    ELSE <<Msg("expected, but found", TokenRead.locus)>>]_vars

\* 'Disabled maybe' in a Service has failed with the two lines, and the
\* service is not disabled.
C19_Witness ==
  /\ pc = "ret"
  /\ res = PARSER_FAIL
  /\ Top.sect = "service"
  /\ Top.ent.name = "Disabled"
  /\ Head(cur_input).token.str = "maybe"
  /\ diag = <<Msg("not a boolean value", ""), Msg("valid booleans are", "")>>
  /\ Top.obj.disabled = 0

\* The URL a Redirect stores: the path is dropped when it is '/'.
StoredURL(url) == IF url = "http://a/" THEN "http://a" ELSE url

C20_Step ==
  Calling("assign_redirect") =>
    LET old == Top.obj
        new == stack'[Len(stack')].obj
        tk == TokenRead
    IN /\ res' = PARSER_OK =>
            /\ tk.type = T_STRING
            /\ \E code \in {301, 302, 307}, req \in 0..2 :
                 new = [old EXCEPT ![Top.ent.off] =
                          SLIST_PUSH(@, [be_type |-> "BE_REDIRECT", redir_code |-> code,
                                         priority |-> 1, alive |-> 1, disabled |-> 0,
                                         redir_req |-> req, url |-> StoredURL(tk.str)])]
       /\ res' # PARSER_OK => res' = PARSER_FAIL /\ new = old
       /\ (res' = PARSER_FAIL /\ tk.type = T_NUMBER) =>
            diag' = <<Msg("invalid status code", "")>>

\* C20: a Redirect statement takes an optional status code, which must be
\* 301, 302 or 307 (any other number fails with 'invalid status code'), and
\* a URL string; on success exactly one backend of kind REDIRECT with that
\* code, priority 1 and alive is appended to the service, and a path that is
\* the single character '/' is removed from the stored URL.
C20_Redirect ==
  /\ [](\A str \in {"303", "4294967597"} : atoi(str) \cap {301, 302, 307} = {})
  /\ [][C20_Step]_vars

(***************************************************************************)
(* Properties of whole configurations.                                     *)
(***************************************************************************)
\* The flags of the URL matchers of a service whose ignore_case is v.
UrlFlags(v) ==
  {"REG_NEWLINE", "REG_EXTENDED"} \cup (IF v # 0 THEN {"REG_ICASE"} ELSE {})

\* The steps that concern the URL matchers of a service: the service opens
\* with the top-level default; inside it only an accepted IgnoreCase changes
\* the flag, to the value read, and a URL is kept as a token, nothing being
\* compiled; when the section closes every matcher is compiled, in the
\* order of the statements, with the flag the service then has.
C21_Step ==
  LET new == stack'[Len(stack')].obj
  IN /\ (Calling("parse_service") /\ Len(stack') = Len(stack) + 1) =>
          new.ignore_case = stack[1].obj.ignore_case /\ new.url = <<>>
     /\ (stack # <<>> /\ Top.sect = "service" /\ Len(stack') = Len(stack)) =>
          /\ new.svc_url = <<>>
          /\ IF Calling("assign_bool") /\ Top.ent.name = "IgnoreCase" /\ res' = PARSER_OK
             THEN /\ new.ignore_case = IF TokenRead.str \in {"1", "yes", "true", "on"}
                                       THEN 1 ELSE 0
                  /\ new.url = Top.obj.url
             ELSE new.ignore_case = Top.obj.ignore_case
          /\ IF Calling("assign_token_list") /\ res' = PARSER_OK
             THEN new.url = SLIST_PUSH(Top.obj.url, TokenRead)
             ELSE new.url = Top.obj.url
     /\ (pc = "sret" /\ Top.sect = "service" /\ res = PARSER_OK /\ res' = PARSER_OK) =>
          /\ Len(services') = Len(services) + 1
          /\ LET svc == services'[Len(services')]
             IN svc.svc_url = [i \in 1..Len(Top.obj.url) |->
                                 [pat |-> Top.obj.url[i].str,
                                  flags |-> UrlFlags(Top.obj.ignore_case)]]

\* C21: every URL matcher of a Service is compiled when the section closes,
\* with the case-folding flag in effect at End (the last IgnoreCase of the
\* service, else the top-level default in force when the service opened),
\* whatever the order of the URL and IgnoreCase statements in the service.
C21_UrlFlags == [][C21_Step]_vars

\* A service opened under the top-level IgnoreCase, with a URL before its
\* own 'IgnoreCase off', was listed with a matcher that does not fold case.
C21_Witness ==
  /\ Len(services) = 1
  /\ stack[1].obj.ignore_case = 1
  /\ services[1].ignore_case = 0
  /\ services[1].svc_url = <<[pat |-> "/a", flags |-> {"REG_NEWLINE", "REG_EXTENDED"}]>>

\* The file parsed ends with a newline.  The configuration file has been
\* opened when the stack of sections is not empty.
EndsWithNewline ==
  LET text == fs.content["main.cfg"] IN text[Len(text)].type = NL

C23_ServerNames ==
  \A i \in 1..Len(listeners) :
    \A j \in 1..Len(listeners[i].ctx_head) :
      listeners[i].ctx_head[j].server_name # ""

\* C24: a Service section that ends with no Backend, Redirect or Emergency
\* parses: the warning 'no backends defined' is the diagnostic of the step,
\* the service is appended to the list of its parent with tot_pri and abs_pri
\* 0, the section returns PARSER_OK to the loop of the parent and the input is
\* where End left it.
C24_Step ==
  (/\ pc = "sret" /\ stack # <<>> /\ Top.sect = "service" /\ res = PARSER_OK
   /\ Top.obj.backends = <<>> /\ Top.obj.emergency = NULL
   /\ pc' # pc) =>
    LET old == IF Parent.sect = "top" THEN services ELSE Parent.obj.services
        new == IF Parent.sect = "top" THEN services' ELSE stack'[Len(stack')].obj.services
    IN /\ pc' = "ret" /\ res' = PARSER_OK
       /\ diag' = <<Msg("warning: no backends defined", "")>>
       /\ Len(new) = Len(old) + 1
       /\ SubSeq(new, 1, Len(old)) = old
       /\ new[Len(new)].tot_pri = 0 /\ new[Len(new)].abs_pri = 0
       /\ new[Len(new)].backends = <<>>
       /\ Len(stack') = Len(stack) - 1
       /\ UNCHANGED <<cur_input, result, listeners>>

C24_EmptyService == [][C24_Step]_vars

\* An empty service is listed and the service of a later statement after it.
C24_Witness ==
  /\ Len(services) = 2
  /\ services[1].backends = <<>> /\ services[1].emergency = NULL
  /\ services[1].tot_pri = 0 /\ services[1].abs_pri = 0
  /\ services[2].backends # <<>>

\* C25: an Address argument that does not resolve is taken as a UNIX path
\* exactly when its length is at most UNIX_PATH_MAX: the address gets the
\* family AF_UNIX, the path and the has-address flag; a longer argument fails
\* with 'UNIX path name too long' and the address, its flag included, is as
\* it was.
C25_Step ==
  (/\ Calling("assign_address") /\ pc' # pc /\ cur_input' # <<>>
   /\ ~ADDRINFO_HAS_ADDRESS(Top.obj[Top.ent.off])
   /\ TokenRead.type \in {T_IDENT, T_LITERAL, T_STRING}
   /\ get_host(TokenRead.str) = "") =>
    LET old == Top.obj[Top.ent.off]
        new == stack'[Len(stack')].obj[Top.ent.off]
    IN /\ (res' = PARSER_OK) <=> (Len(TokenRead.str) <= UNIX_PATH_MAX)
       /\ res' = PARSER_OK =>
            /\ new.ai_family = "AF_UNIX"
            /\ new.ai_addr.host = TokenRead.str
            /\ ADDRINFO_HAS_ADDRESS(new)
       /\ res' # PARSER_OK =>
            /\ Len(diag') = 1 /\ diag'[1].text = "UNIX path name too long"
            /\ new = old

C25_UnixPath ==
  /\ [](pc = "start" =>
         LET x22 == "/xxxxxxxxxxxxxxxxxxxxx"
             path(n) == SubSeq(x22 \o x22 \o x22 \o x22 \o x22, 1, n)
         IN \A n \in {0, 1, UNIX_PATH_MAX - 1, UNIX_PATH_MAX, UNIX_PATH_MAX + 1,
                      UNIX_PATH_MAX + 2} :
              \A ty \in {T_IDENT, T_LITERAL, T_STRING} :
                LET r == assign_address_internal(ZeroAddr, Tok(ty, path(n)))
                IN /\ (r.rc = PARSER_OK) <=> (n <= UNIX_PATH_MAX)
                   /\ ADDRINFO_HAS_ADDRESS(r.addr) <=> (n <= UNIX_PATH_MAX)
                   /\ n <= UNIX_PATH_MAX => r.addr.ai_family = "AF_UNIX"
                   /\ n > UNIX_PATH_MAX =>
                        r.msgs = <<Msg("UNIX path name too long", Tok(ty, path(n)).locus)>>)
  /\ [][C25_Step]_vars

\* An Address statement of a backend was refused for a path of 109 characters.
C25_Witness ==
  /\ pc = "ret" /\ res = PARSER_FAIL
  /\ Top.sect = "backend" /\ Top.ent.name = "Address"
  /\ Len(diag) = 1 /\ diag[1].text = "UNIX path name too long"
  /\ Len(Head(cur_input).token.str) = UNIX_PATH_MAX + 1
  /\ ~ADDRINFO_HAS_ADDRESS(Top.obj.addr)

\* C26: parser_loop never calls gettkn when the input stack is empty, and a
\* configuration whose last statement is ended by the end of the file parses
\* as the same text followed by a newline does (successfully, for the
\* configurations of SpecCfg).
C26_NoReadAfterEnd ==
  /\ pc = "loop" => cur_input # <<>>
  /\ (pc \in {"done", "exit"} /\ stack # <<>> /\ ~fs.lazy) =>
       result \in {"ok", "exit 0", "return"}

\* C27: a HAport statement leaves the main address of the backend as it was,
\* and a Port statement leaves the address of the HA probe as it was: in
\* either order the main port is the one of Port and the port of the probe
\* the one of HAport.
C27_Step ==
  LET be == Top.obj
      new == stack'[Len(stack')].obj
  IN /\ Calling("backend_parse_haport") => new.addr = be.addr
     /\ (/\ Calling("assign_port") /\ Top.sect \in {"backend", "emergency"}
         /\ ADDRINFO_HAS_ADDRESS(be.ha_addr)) => HaProbe(new) = HaProbe(be)

C27_SeparateAddresses == [][C27_Step]_vars

\* C28: whenever the parser_loop of the top level has returned PARSER_OK the
\* input stack is empty, so parse_config_file never takes the exit for an
\* inconsistent input stack.
C28_StackEmptyOnOK ==
  /\ (pc = "sret" /\ stack # <<>> /\ Top.sect = "top" /\ res = PARSER_OK) =>
       cur_input = <<>>
  /\ result # "exit"

\* A configuration with an Include statement that succeeded was parsed.
C28_Witness ==
  /\ pc = "done" /\ result = "ok"
  /\ "Include" \in done[1]
  /\ cur_input = <<>>

\* C29: when the process exits after a parse that failed, no input is left
\* on the input stack: every input that was open has been closed.
C29_ClosedAtExit == (pc = "exit" /\ result = "exit 1") => cur_input = <<>>

\* C30: when parser_loop reads the end of all input in a section other than
\* the top level it fails with 'unexpected end of file' reported at the place
\* where the section began, which the section keeps from its entry on; at the
\* top level the end of input ends the parse with PARSER_OK; End is no
\* keyword of the top level.
C30_Step ==
  /\ (pc = "loop" /\ cur_input # <<>> /\ cur_input' = <<>>) =>
       /\ pc' = "sret"
       /\ stack' = stack
       /\ IF Top.sect = "top"
          THEN res' = PARSER_OK /\ diag' = <<>>
          ELSE /\ res' = PARSER_FAIL
               /\ diag' = <<Msg("unexpected end of file", Top.beg)>>
  /\ (pc = "call" /\ pc' = "loop" /\ Len(stack') = Len(stack) + 1) =>
       stack'[Len(stack')].beg = Head(cur_input').name \o ":" \o ToString(nstmt)
  /\ \A i \in 2..Len(stack) : i <= Len(stack') => stack'[i].beg = stack[i].beg
  /\ (/\ pc = "loop" /\ Top.sect = "top" /\ cur_input' # <<>>
      /\ ~Head(cur_input').ready
      /\ Head(cur_input').token.type = T_IDENT
      /\ Head(cur_input').token.str = "End") =>
       /\ pc' = "sret" /\ res' = PARSER_FAIL
       /\ diag' = <<Msg("unrecognized keyword", Head(cur_input').name)>>

C31_Step ==
  /\ (cur_input' # <<>> /\ Head(cur_input').ready
      /\ (cur_input = <<>> \/ cur_input' # cur_input)) =>
       /\ pc = "call"
       /\ Top.ent.parser \in {"parse_service", "backend_parse_haport"}
       /\ cur_input # <<>> /\ ~Head(cur_input).ready
       /\ Head(cur_input').token.type \notin {EOF, T_ERROR, "zero"}
       /\ Tail(cur_input') = Tail(cur_input)
  /\ (cur_input # <<>> /\ Head(cur_input).ready /\ cur_input' # cur_input) =>
       cur_input' = <<[Head(cur_input) EXCEPT !.ready = FALSE]>> \o Tail(cur_input)

C31_Pushback ==
  /\ [](/\ \A i \in 2..Len(cur_input) : ~cur_input[i].ready
        /\ pc = "call" => (cur_input # <<>> /\ ~Head(cur_input).ready)
        /\ (cur_input # <<>> /\ Head(cur_input).ready) =>
             \A d \in DrawsAt(cur_input, {}) :
               LET g == gettkn(cur_input, d)
               IN /\ g.init
                  /\ g.type = Head(cur_input).token.type
                  /\ g.tok = Head(cur_input).token
                  /\ g.inp = <<[Head(cur_input) EXCEPT !.ready = FALSE]>>
                               \o Tail(cur_input))
  /\ [][C31_Step]_vars

\* The newline read after 'HAport 8080' waits in the input.
C31_Witness ==
  /\ pc = "ret" /\ res = PARSER_OK
  /\ Top.ent.name = "HAport"
  /\ Head(cur_input).ready
  /\ Head(cur_input).token.type = NL
  /\ HaProbe(Top.obj).port = 8080

\* The characters isspace, isalpha and isdigit accept.
Spaces == {" ", "\t", "\n", "\r", "\f"}
Letters == {SubSeq("ABCDEFGHIJKLMNOPQRSTUVWXYZabcdefghijklmnopqrstuvwxyz", i, i) : i \in 1..52}
Digits == {SubSeq("0123456789", i, i) : i \in 1..10}

\* C32: when the lexer is called before a run of characters that is delimited
\* by white space and starts with neither '#' nor '"', it returns one token
\* whose lexeme is the whole run; the type is IDENT iff the run is a letter
\* or '_' followed by letters, digits and '_' only, NUMBER iff the run has
\* digits only, and LITERAL otherwise.
C32_Step ==
  LET text == fs.text
      ch(i) == SubSeq(text, i, i)
      RECURSIVE first(_), last(_)
      first(i) == IF i <= Len(text) /\ ch(i) \in Spaces \ {"\n"} THEN first(i + 1) ELSE i
      last(i) == IF i < Len(text) /\ ch(i + 1) \notin Spaces THEN last(i + 1) ELSE i
      q == first(Head(cur_input).pos + 1)
      run == SubSeq(text, q, last(q))
      isident == /\ ch(q) \in Letters \cup {"_"}
                 /\ \A i \in q..last(q) : ch(i) \in Letters \cup Digits \cup {"_"}
      isnumber == \A i \in q..last(q) : ch(i) \in Digits
      tok == seen'[Len(seen')]
  IN (/\ pc = "loop" /\ cur_input # <<>> /\ seen' # seen
      /\ q <= Len(text) /\ ch(q) \notin {"\n", "#", "\""}
      /\ (q = 1 \/ ch(q - 1) \in Spaces)) =>
       /\ Len(seen') = Len(seen) + 1
       /\ tok.str = run
       /\ tok.type = IF isident THEN T_IDENT
                     ELSE IF isnumber THEN T_NUMBER ELSE T_LITERAL
       /\ Head(cur_input').pos = last(q)
       /\ diag' = <<>>

C32_Runs == [][C32_Step]_vars

\* The text "a 1-" was read: an identifier and a literal.
C32_Witness ==
  /\ fs = [lazy |-> FALSE, text |-> "a 1-"]
  /\ Len(seen) = 2
  /\ seen[1].type = T_IDENT /\ seen[1].str = "a"
  /\ seen[2].type = T_LITERAL /\ seen[2].str = "1-"

\* C35: pushing back the character that was just read restores the line and
\* the column of the input, whatever the character is; so the place of the
\* input is always the one that reading the characters before its offset
\* gives.
C35_PushbackInverse ==
  cur_input # <<>> =>
    LET in == Head(cur_input)
        g == input_getc(in, fs.text)
        RECURSIVE reread(_)
        reread(i) == IF i.pos = in.pos THEN i ELSE reread(input_getc(i, fs.text).input)
    IN /\ input_ungetc(g.input, g.c).locus = in.locus
       /\ reread(input_open(in.name, stat(in.name))).locus = in.locus

\* The first token of a text that is a file of its own.
C33_Lex(text) == input_gettkn_text(input_open("main.cfg", stat("main.cfg")), text)

\* What stands in a quoted string before the place the claim is about.
C33_Bodies == {"", "a", "a b", "#1", "\t-"}

\* The characters that no escape is defined for.
C33_Escaped == {"a", "n", "#", " ", "\t"}

\* A step that read T_ERROR: the section fails, and no diagnostic is added
\* to the one of the lexer.
C33_Step ==
  (/\ cur_input' # <<>>
   /\ Head(cur_input').token.type = T_ERROR
   /\ (cur_input = <<>> \/ Head(cur_input).token.type # T_ERROR)) =>
    /\ res' = PARSER_FAIL
    /\ pc' = IF pc = "call" THEN "ret" ELSE "sret"
    /\ diag' = <<>>

\* C33: the end of a line or of the file inside a quoted string makes the
\* lexer return T_ERROR with its diagnostic; an escape that is not defined is
\* diagnosed and the token is the T_STRING that holds the escaped character;
\* and a T_ERROR token read as the keyword of a statement, as the value of a
\* statement or after a statement makes the parse fail.
C33_ErrorToken ==
  /\ [](pc = "start" =>
        \A b \in C33_Bodies :
          /\ C33_Lex("\"" \o b).type = T_ERROR
          /\ C33_Lex("\"" \o b).msgs
               = <<Msg("end of file in quoted string",
                       C33_Lex("\"" \o b).input.locus)>>
          /\ C33_Lex("\"" \o b \o "\nc\"").type = T_ERROR
          /\ C33_Lex("\"" \o b \o "\nc\"").msgs
               = <<Msg("end of line in quoted string",
                       C33_Lex("\"" \o b \o "\nc\"").input.locus)>>
          /\ \A e \in C33_Escaped :
               LET r == C33_Lex("\"" \o b \o "\\" \o e \o b \o "\" x")
               IN /\ r.type = T_STRING
                  /\ r.input.token.str = b \o e \o b
                  /\ Len(r.msgs) = 1
                  /\ r.msgs[1].text = "unrecognized escape character")
  /\ []((cur_input # <<>> /\ Head(cur_input).token.type = T_ERROR) =>
         /\ res = PARSER_FAIL
         /\ pc \in {"ret", "sret", "done"}
         /\ pc = "done" => result = "fail")
  /\ [][C33_Step]_vars

\* T_ERROR was read in each of the three places, and the parse failed.
C33_Witness ==
  /\ pc = "done" /\ result = "fail"
  /\ cur_input # <<>> /\ Head(cur_input).token.type = T_ERROR
  /\ anonymise = 1

\* T_ERROR was read as the name of the file of an Include.
C33_WitnessValue ==
  /\ pc = "ret" /\ res = PARSER_FAIL
  /\ Top.ent.parser = "parse_include"
  /\ cur_input # <<>> /\ Head(cur_input).token.type = T_ERROR

(***************************************************************************)
(* Properties of the defaults of the top level.                            *)
(***************************************************************************)
\* The token types a value parser of the top level accepts.
C34_Expected(parser) == IF parser = "assign_log_facility" THEN T_UNQ ELSE {T_NUMBER}

\* A value parser whose token has the wrong type or is missing returns FAIL
\* with a diagnostic and leaves the object alone.
C34_Step ==
  (/\ pc = "call"
   /\ Top.ent.parser \in {"assign_timeout", "assign_log_facility"}
   /\ TokenRead.type \notin C34_Expected(Top.ent.parser)) =>
    /\ pc' = "ret"
    /\ res' = PARSER_FAIL
    /\ diag' # <<>>
    /\ stack' = stack

\* C34: a value parser returns FAIL, and dereferences no missing token, when
\* the token after its keyword has the wrong type or is a newline; LogFacility
\* followed by a quoted string or by a newline fails with a diagnostic.
C34_CleanFail == [][C34_Step]_vars

\* The number of the last statement kw of the tokens read before the first
\* keyword sect, and dflt when there is none.
C40_InEffect(kw, sect, dflt) ==
  LET Is(i, k) == seen[i].type = T_IDENT /\ seen[i].str = k
      opens == {i \in 1..Len(seen) : Is(i, sect)}
      n == IF opens = {} THEN Len(seen) + 1
           ELSE CHOOSE i \in opens : \A j \in opens : i <= j
      sets == {i \in 1..(n - 2) : Is(i, kw) /\ seen[i + 1].type = T_NUMBER}
  IN IF sets = {} THEN dflt
     ELSE strtoul(seen[(CHOOSE i \in sets : \A j \in sets : j <= i) + 1].str)

\* A statement of the top level that sets a default leaves the listeners and
\* the services that are built alone.
C40_Step ==
  (pc = "call" /\ Top.sect = "top"
   /\ Top.ent.parser \in {"assign_timeout", "assign_log_facility"}) =>
    /\ listeners' = listeners
    /\ services' = services

\* C40: the timeouts of a backend are the TimeOut, ConnTO and WSTimeOut of
\* the top level in effect when its Backend statement is read (15, 15 and 600
\* when they are not set), and the timeout of a listener is the Client in
\* effect when its section opens; a statement of the top level that comes
\* later changes no backend and no listener that is built.
C40_DefaultsAtOpen ==
  /\ [](/\ \A be \in BackendObjs :
             /\ be.to = C40_InEffect("TimeOut", "Backend", 15)
             /\ be.conn_to = C40_InEffect("ConnTO", "Backend", 15)
             /\ be.ws_to = C40_InEffect("WSTimeOut", "Backend", 600)
        /\ \A lst \in ListenerObjs :
             lst.to = C40_InEffect("Client", "ListenHTTP", 10))
  /\ [][C40_Step]_vars

\* A file that sets TimeOut to 300 before the backend and to 5 after it was
\* read to its end: the backend has 300, the defaults have 5.
C40_Witness ==
  /\ pc = "done" /\ result = "ok"
  /\ Dfl.be_to = 5
  /\ Len(services) = 1 /\ Len(services[1].backends) = 1
  /\ services[1].backends[1].to = 300
  /\ services[1].backends[1].conn_to = 0
  /\ Len(listeners) = 1

\* The keyword read at the head of a statement of a ListenHTTPS section: a
\* keyword of ListenHTTP is dispatched to its handler, and a keyword that is
\* dispatched is one of ListenHTTP or one of the TLS statements.
C39_Step ==
  (pc = "loop" /\ Top.sect = "https" /\ TokenRead.type = T_IDENT) =>
    /\ parser_find(http_parsetab, TokenRead.str) # NoEnt => pc' = "call"
    /\ pc' = "call" =>
         \/ parser_find(http_parsetab, TokenRead.str) # NoEnt
         \/ TokenRead.str \in {"Cert", "ClientCert", "Disable", "Ciphers",
                                "SSLHonorCipherOrder", "SSLAllowClientRenegotiation",
                                "CAlist", "VerifyList", "CRLlist", "NoHTTPS11"}

\* C39: every keyword that is recognised in a ListenHTTP section, ACME
\* included, is recognised in a ListenHTTPS section, which adds the TLS
\* statements only.
C39_HttpsExtendsHttp == [][C39_Step]_vars

====
